---- MODULE Spec2Model ----
(***************************************************************************)
(* taskd: a user-level process supervisor.                                 *)
(*                                                                         *)
(* The model covers the supervision core of internal/task: the Task        *)
(* wrapper (task.go), the Manager (manager.go), the DaemonManager and the  *)
(* TaskMonitor (daemon.go), and the runtime state file runtime.json that   *)
(* all processes share.                                                    *)
(*                                                                         *)
(* Processes.  A command process is short lived: GetManager (loadTasks +   *)
(* cleanupRuntimeState), one Manager operation, exit; its in-memory Task   *)
(* objects and reaper goroutines die with it.  The daemon process is long  *)
(* lived: it keeps its own Manager (loaded once, when the monitor is       *)
(* constructed), the reaper goroutines of the processes it started or      *)
(* re-attached to, and the delayed saves scheduled by Manager.onTaskExit.  *)
(*                                                                         *)
(* Operating system interface (Windows, the platform daemon.go is written  *)
(* for): os.FindProcess(pid) fails exactly when no process with that id    *)
(* exists; Process.Wait works on any process handle; a child survives its  *)
(* parent; process ids are handed out in increasing order and are not      *)
(* reused within a run.                                                    *)
(***************************************************************************)
EXTENDS Integers, Sequences, FiniteSets, TLC

\* Largest process id the operating system hands out in a run.
MaxPid == 4

\* The positive retry limit used by task definitions that have one.
RetryLimit == 2

\* Names of the task definitions (one .toml file each) and the reserved name.
Tasks == {"t1", "t2"}

DAEMON == "taskd"

Names == Tasks \cup {DAEMON}

\* A task definition: the fields of Config the supervision core reads.
Config(autoStart, maxRetryNum) ==
  [AutoStart |-> autoStart, MaxRetryNum |-> maxRetryNum]

\* The sets of task definitions a run may start from.
Definitions ==
  { [t \in Tasks |-> IF t = "t1" THEN Config(TRUE, RetryLimit)
                                 ELSE Config(FALSE, 0)],
    [t \in Tasks |-> IF t = "t1" THEN Config(TRUE, 1)
                                 ELSE Config(TRUE, 0)] }

\* A name without an entry in RuntimeState.Tasks.
NoRec ==
  [Status |-> "absent", PID |-> 0, ExitCode |-> 0,
   StoppedByTaskd |-> FALSE, RetryNum |-> 0]

\* A Task as NewTask builds it: stopped, no process handle.
NewTask == [status |-> "stopped", pid |-> 0]

NoTasks == [t \in Tasks |-> NewTask]

NoReapers == [t \in Tasks |-> {}]

VARIABLES
  doc,      \* runtime.json: name -> TaskRuntimeInfo, NoRec when absent
  alive,    \* ids of the OS processes that exist
  nextPid,  \* id the next spawned process gets
  cfg,      \* task definitions: name -> Config
  dPid,     \* id of the daemon process, 0 when there is none
  dInit,    \* the daemon has constructed its TaskMonitor (GetManager ran)
  dTasks,   \* Manager.tasks of the daemon process
  dReap,    \* per task, the pids the daemon's reaper goroutines wait on
  dSaves,   \* delayed saveRuntimeState calls scheduled by onTaskExit
  started,  \* per task, pid spawned by its last successful manual start,
            \* 0 once that process is gone
  restarts, \* per task, automatic restarts since its last manual start
  opStopped,\* per task, what the operator did since its last successful
            \* manual start: "no" command, "stopped" it, or "tried" a
            \* stop, start or restart that failed
  resetFrom \* per task, the retry count its last successful start found

\* The state directory at the level of files (section "The state directory
\* as files"); the supervision actions work on whole documents and leave
\* these alone.
VARIABLES
  dir,      \* path -> file: runtime.json, its .backup, .tmp and .corrupted
  wr,       \* the os.WriteFile on runtime.json a Manager has in progress
  lastWrite \* the last write of runtime.json that returned, and what it
            \* overwrote

storeVars == <<dir, wr, lastWrite>>

\* Processes that run DaemonManager.EnsureDaemonRunning statement by
\* statement (section "Concurrent daemon starts").
VARIABLES
  ens,      \* per process, its position in EnsureDaemonRunning and the pid
            \* of the daemon process it spawned
  daemons   \* ids of the processes spawned as `taskd --daemon`

ensVars == <<ens, daemons>>

\* A command process in Manager.stopTask and the daemon in a tick, statement
\* by statement (section "A stop command during a tick").
VARIABLES
  stp,      \* the command process: its position in stopTask, the name, its
            \* Manager.tasks and the error of Task.Stop
  mon       \* the daemon: its position in checkAndRestartTasks and the
            \* RuntimeState it loaded at the start of the tick

stopVars == <<stp, mon>>

raceVars == <<ensVars, stopVars>>

\* A call of BuiltinTaskHandler.ValidateOperation and what it returned
\* (section "The reserved name").
VARIABLES
  val       \* the name and the operation of the last call, and its error

\* Command processes in Manager.startTask or Manager.restartTask, statement
\* by statement, with their reaper goroutines (section "Two command
\* processes").
VARIABLES
  cmd       \* per process: its position, the operation and the name, its
            \* Manager.tasks, the pids its reapers wait on, the pid it
            \* spawned and the error it returned

\* The polling loop of TaskMonitor.Start (section "The polling loop").
VARIABLES
  loop      \* isRunning, whether stopChan is closed, whether the ticker has
            \* a tick to deliver, where the goroutine of Start is, whether
            \* the signal handler has run, and whether a tick has started
            \* after stopChan was closed

callVars == <<val, cmd, loop>>

\* No call of ValidateOperation yet.
NoCall == [name |-> "", op |-> "", err |-> "none"]

\* The processes that call EnsureDaemonRunning.
Procs == {"p1", "p2"}

Idle == [pc |-> "idle", pid |-> 0]

\* No stopTask is in progress.
NoStop == [pc |-> "idle", name |-> "", tasks |-> NoTasks, err |-> "nil"]

\* A command process that has not begun.
NoCmd ==
  [pc |-> "idle", op |-> "", name |-> "", tasks |-> NoTasks,
   reap |-> NoReapers, new |-> 0, err |-> "nil"]

\* A TaskMonitor as NewTaskMonitor builds it: not running, stopChan open,
\* and no goroutine in Start.
NoLoop ==
  [isRunning |-> FALSE, closed |-> FALSE, tick |-> FALSE, pc |-> "new",
   sig |-> FALSE, late |-> FALSE]

\* No tick is in progress; the empty document is written out because
\* EmptyDoc is defined further down.
NoTick == [pc |-> "idle", snap |-> [n \in Names |-> NoRec]]

coreVars == <<doc, alive, nextPid, cfg, dPid, dInit, dTasks, dReap, dSaves,
              started, restarts, opStopped, resetFrom>>

\* The paths of the state directory: GetTaskDRuntimeFile and the three
\* names FileStateManager derives from it.
statePath == "runtime.json"

backupPath == "runtime.json.backup"

tempPath == "runtime.json.tmp"

corruptedPath == "runtime.json.corrupted"

Paths == {statePath, backupPath, tempPath, corruptedPath}

\* A path without a file, and a file holding data (a sequence of tokens).
NoFile == [exists |-> FALSE, data |-> <<>>]

File(data) == [exists |-> TRUE, data |-> data]

EmptyDir == [p \in Paths |-> NoFile]

\* No os.WriteFile on runtime.json is in progress.
Closed == [open |-> FALSE, data |-> <<>>, prev |-> NoFile]

\* No write of runtime.json has returned yet.
NoWrite == [by |-> "none", err |-> "nil", prev |-> NoFile]

vars == <<coreVars, storeVars, raceVars, callVars>>

----------------------------------------------------------------------------
(* Operating system *)

\* os.FindProcess succeeds iff the process exists.
FindProcess(pid, al) == pid \in al

\* ProcessChecker.CheckTaskProcess: Exists; IsTaskd is true whenever Exists.
CheckTaskProcess(pid, al) ==
  IF pid <= 0 THEN [Exists |-> FALSE, IsTaskd |-> FALSE]
  ELSE IF ~FindProcess(pid, al) THEN [Exists |-> FALSE, IsTaskd |-> FALSE]
  ELSE [Exists |-> TRUE, IsTaskd |-> TRUE]

\* ProcessChecker.GetProcessExitCode as TaskMonitor.getProcessExitCode uses
\* it: every outcome ends in 0.
getProcessExitCode(pid, al) == 0

----------------------------------------------------------------------------
(* The world a handler acts on: the state file, the OS processes, the pid   *)
(* of a daemon it spawned, every document it wrote to the state file, and   *)
(* whether cmd.Start of a daemon process succeeds while it runs.            *)

World(d, al, np) ==
  [doc |-> d, alive |-> al, nextPid |-> np, dspawn |-> 0, writes |-> {},
   dstart |-> TRUE]

\* os.WriteFile(statePath, data): the file is replaced by the document.
WriteFile(w, d) == [w EXCEPT !.doc = d, !.writes = @ \cup {d}]

\* cmd.Start(): a new OS process.
Spawn(w) ==
  [w EXCEPT !.alive = @ \cup {w.nextPid}, !.nextPid = @ + 1]

\* Process.Kill() on an existing process.
Terminate(w, pid) == [w EXCEPT !.alive = @ \ {pid}]

----------------------------------------------------------------------------
(* Task (task.go) *)

\* Task.GetRuntimeInfo: only a running task with a process handle has one;
\* StoppedByTaskd, RetryNum and ExitCode are left at their zero values.
GetRuntimeInfo(task) ==
  IF task.status # "running" \/ task.pid = 0 THEN NoRec
  ELSE [Status |-> task.status, PID |-> task.pid, ExitCode |-> 0,
        StoppedByTaskd |-> FALSE, RetryNum |-> 0]

\* Task.restoreRuntimeState: re-attach to the recorded pid if it exists.
restoreRuntimeState(info, al) ==
  IF info.PID > 0 /\ FindProcess(info.PID, al)
  THEN [status |-> info.Status, pid |-> info.PID]
  ELSE NewTask

\* Task.Start without the check of the status: a running Task is started
\* again.
TaskStart_SpawnsAgain(task, w, ok) ==
  IF ~ok
  THEN [task |-> [task EXCEPT !.status = "failed"], w |-> w,
        err |-> "failed to start process"]
  ELSE [task |-> [status |-> "running", pid |-> w.nextPid],
        w |-> Spawn(w), err |-> "nil"]

\* Task.Start.  ok: whether the OS can spawn the executable.
TaskStart(task, w, ok) ==
  IF task.status = "running"
  THEN [task |-> task, w |-> w, err |-> "already running"]
  ELSE IF ~ok
  THEN [task |-> [task EXCEPT !.status = "failed"], w |-> w,
        err |-> "failed to start process"]
  ELSE [task |-> [status |-> "running", pid |-> w.nextPid],
        w |-> Spawn(w), err |-> "nil"]

\* Task.Stop: kill the process; a process that is already gone counts as
\* stopped.
TaskStop(task, w) ==
  IF task.status # "running"
  THEN [task |-> task, w |-> w, err |-> "not running"]
  ELSE [task |-> [status |-> "stopped", pid |-> 0],
        w |-> IF task.pid # 0 THEN Terminate(w, task.pid) ELSE w,
        err |-> "nil"]

\* Task.GetInfo: status and pid as the Task holds them.
GetInfo(task) == [Status |-> task.status, PID |-> task.pid]

----------------------------------------------------------------------------
(* Manager: the state file (manager.go) *)

IsBuiltinTask(name) == name = "taskd"

\* Manager.loadTasks: one Task per definition, restored from its record.
loadTasks(d, al) ==
  [t \in Tasks |->
     IF d[t] # NoRec THEN restoreRuntimeState(d[t], al) ELSE NewTask]

\* The reaper goroutines loadTasks starts (Task.monitorExistingProcess).
restoredReapers(tasks) ==
  [t \in Tasks |-> IF tasks[t].pid # 0 THEN {tasks[t].pid} ELSE {}]

\* Manager.loadRuntimeState: the document in the file.
loadRuntimeState(w) == w.doc

\* Manager.saveRuntimeStateWithData
saveRuntimeStateWithData(w, state) == WriteFile(w, state)

\* Manager.cleanupRuntimeState
cleanupRuntimeState(tasks, w) ==
  LET d == loadRuntimeState(w)
      updatedTasks ==
        [n \in Names |->
           IF d[n] # NoRec
           THEN IF n \in Tasks
                THEN IF GetRuntimeInfo(tasks[n]) # NoRec
                     THEN GetRuntimeInfo(tasks[n]) ELSE d[n]
                ELSE IF IsBuiltinTask(n) THEN d[n] ELSE NoRec
           ELSE IF n \in Tasks THEN GetRuntimeInfo(tasks[n]) ELSE NoRec]
  IN WriteFile(w, updatedTasks)

\* saveRuntimeState that takes StoppedByTaskd over from the record in the
\* file.
saveRuntimeState_KeepsStoppedByTaskd(tasks, w) ==
  LET currentState == loadRuntimeState(w)
      state ==
        [n \in Names |->
           IF IsBuiltinTask(n) THEN currentState[n]
           ELSE IF n \in Tasks
           THEN IF GetRuntimeInfo(tasks[n]) # NoRec
                THEN [GetRuntimeInfo(tasks[n]) EXCEPT
                        !.StoppedByTaskd = currentState[n].StoppedByTaskd]
                ELSE NoRec
           ELSE NoRec]
  IN WriteFile(w, state)

\* Manager.saveRuntimeState: the document is rebuilt from the Tasks in
\* memory; only the builtin record is taken over from the file.
saveRuntimeState(tasks, w) ==
  LET currentState == loadRuntimeState(w)
      state ==
        [n \in Names |->
           IF IsBuiltinTask(n) THEN currentState[n]
           ELSE IF n \in Tasks THEN GetRuntimeInfo(tasks[n]) ELSE NoRec]
  IN WriteFile(w, state)

\* Manager.resetTaskRetryCount
resetTaskRetryCount(w, taskName) ==
  LET state == loadRuntimeState(w) IN
  IF state[taskName] = NoRec THEN w
  ELSE saveRuntimeStateWithData(w, [state EXCEPT ![taskName].RetryNum = 0])

\* setTaskStoppedByTaskd that clears the pid but leaves the status.
setTaskStoppedByTaskd_KeepsStatus(w, taskName, stoppedByTaskd) ==
  LET state == loadRuntimeState(w) IN
  IF state[taskName] = NoRec THEN w
  ELSE IF stoppedByTaskd
  THEN saveRuntimeStateWithData(w,
         [state EXCEPT ![taskName].StoppedByTaskd = TRUE,
                       ![taskName].PID = 0])
  ELSE saveRuntimeStateWithData(w,
         [state EXCEPT ![taskName].StoppedByTaskd = FALSE])

\* Manager.setTaskStoppedByTaskd
setTaskStoppedByTaskd(w, taskName, stoppedByTaskd) ==
  LET state == loadRuntimeState(w) IN
  IF state[taskName] = NoRec THEN w
  ELSE IF stoppedByTaskd
  THEN saveRuntimeStateWithData(w,
         [state EXCEPT ![taskName].StoppedByTaskd = TRUE,
                       ![taskName].Status = "stopped",
                       ![taskName].PID = 0])
  ELSE saveRuntimeStateWithData(w,
         [state EXCEPT ![taskName].StoppedByTaskd = FALSE])

\* GetManager: a fresh Manager, its Tasks loaded, the state file cleaned up.
GetManager(w) ==
  LET tasks == loadTasks(w.doc, w.alive)
  IN [tasks |-> tasks, w |-> cleanupRuntimeState(tasks, w)]

----------------------------------------------------------------------------
(* DaemonManager (daemon.go) *)

\* DaemonManager.isDaemonRunningLocked
isDaemonRunningLocked(w) ==
  LET daemonInfo == loadRuntimeState(w)[DAEMON] IN
  /\ daemonInfo # NoRec
  /\ daemonInfo.Status = "running"
  /\ CheckTaskProcess(daemonInfo.PID, w.alive).Exists
  /\ CheckTaskProcess(daemonInfo.PID, w.alive).IsTaskd

\* DaemonStateManager.SaveDaemonState
SaveDaemonState(w, daemonInfo) ==
  saveRuntimeStateWithData(w,
    [loadRuntimeState(w) EXCEPT ![DAEMON] = daemonInfo])

\* DaemonManager.StartDaemon
StartDaemon(w) ==
  IF isDaemonRunningLocked(w)
  THEN [w |-> w, err |-> "daemon is already running"]
  ELSE IF ~w.dstart
  THEN [w |-> w, err |-> "failed to start daemon process"]
  ELSE LET w1 == [Spawn(w) EXCEPT !.dspawn = w.nextPid]
           daemonInfo == [Status |-> "running", PID |-> w.nextPid,
                          ExitCode |-> 0, StoppedByTaskd |-> FALSE,
                          RetryNum |-> 0]
       IN [w |-> SaveDaemonState(w1, daemonInfo), err |-> "nil"]

\* EnsureDaemonRunning that starts no daemon when the daemon's record says
\* that an operator stopped it.
EnsureDaemonRunning_UnlessStoppedByTaskd(w) ==
  IF isDaemonRunningLocked(w) THEN w
  ELSE IF /\ loadRuntimeState(w)[DAEMON] # NoRec
          /\ loadRuntimeState(w)[DAEMON].StoppedByTaskd
  THEN w
  ELSE StartDaemon(w).w

\* DaemonManager.EnsureDaemonRunning
EnsureDaemonRunning(w) ==
  IF isDaemonRunningLocked(w) THEN w ELSE StartDaemon(w).w

----------------------------------------------------------------------------
(* Manager: operations (manager.go) *)

\* Manager.hasRunningTasks
hasRunningTasks(w) ==
  \E n \in Names :
    /\ n # "taskd"
    /\ loadRuntimeState(w)[n] # NoRec
    /\ loadRuntimeState(w)[n].Status = "running"

\* hasAutoStartTasks without its test of StoppedByTaskd.
hasAutoStartTasks_IgnoresStoppedByTaskd(w, c) ==
  \E t \in Tasks :
    /\ c[t].AutoStart
    /\ LET runtimeInfo == loadRuntimeState(w)[t] IN
       IF runtimeInfo # NoRec
       THEN \/ runtimeInfo.Status = "running"
            \/ /\ runtimeInfo.Status = "stopped"
               /\ (c[t].MaxRetryNum <= 0
                     \/ runtimeInfo.RetryNum < c[t].MaxRetryNum)
       ELSE TRUE

\* Manager.hasAutoStartTasks
hasAutoStartTasks(w, c) ==
  \E t \in Tasks :
    /\ c[t].AutoStart
    /\ LET runtimeInfo == loadRuntimeState(w)[t] IN
       IF runtimeInfo # NoRec
       THEN \/ runtimeInfo.Status = "running"
            \/ /\ runtimeInfo.Status = "stopped"
               /\ ~runtimeInfo.StoppedByTaskd
               /\ (c[t].MaxRetryNum <= 0
                     \/ runtimeInfo.RetryNum < c[t].MaxRetryNum)
       ELSE TRUE

\* Manager.needsDaemon
needsDaemon(w, c) == hasRunningTasks(w) \/ hasAutoStartTasks(w, c)

\* Manager.ensureDaemonForCommand
ensureDaemonForCommand(w, c) ==
  IF needsDaemon(w, c) THEN EnsureDaemonRunning(w) ELSE w

\* startTask that returns after Task.Start without persisting.
startTask_WithoutPersist(tasks, w, c, name, ok) ==
  LET w1 == ensureDaemonForCommand(w, c) IN
  IF IsBuiltinTask(name)
  THEN [tasks |-> tasks, w |-> StartDaemon(w1).w, err |-> StartDaemon(w1).err]
  ELSE IF name \notin Tasks
  THEN [tasks |-> tasks, w |-> w1, err |-> "does not exist"]
  ELSE LET r == TaskStart(tasks[name], w1, ok)
       IN [tasks |-> [tasks EXCEPT ![name] = r.task], w |-> r.w,
           err |-> r.err]

\* Manager.startTask
startTask(tasks, w, c, name, ok) ==
  LET w1 == ensureDaemonForCommand(w, c) IN
  IF IsBuiltinTask(name)
  THEN [tasks |-> tasks, w |-> StartDaemon(w1).w, err |-> StartDaemon(w1).err]
  ELSE IF name \notin Tasks
  THEN [tasks |-> tasks, w |-> w1, err |-> "does not exist"]
  ELSE LET r == TaskStart(tasks[name], w1, ok)
           tasks2 == [tasks EXCEPT ![name] = r.task]
       IN IF r.err = "nil"
          THEN [tasks |-> tasks2,
                w |-> saveRuntimeState(tasks2,
                        resetTaskRetryCount(r.w, name)),
                err |-> "nil"]
          ELSE [tasks |-> tasks2, w |-> r.w, err |-> r.err]

\* Manager.stopTask (non-builtin names)
stopTask(tasks, w, name) ==
  IF name \notin Tasks
  THEN [tasks |-> tasks, w |-> w, err |-> "does not exist"]
  ELSE LET r == TaskStop(tasks[name], w)
           tasks2 == [tasks EXCEPT ![name] = r.task]
       IN [tasks |-> tasks2,
           w |-> saveRuntimeState(tasks2,
                   setTaskStoppedByTaskd(r.w, name, TRUE)),
           err |-> r.err]

\* restartTask that returns the error of its ensure-daemon step.
restartTask_ReturnsDaemonError(tasks, w, c, name, ok) ==
  LET w1 == ensureDaemonForCommand(w, c) IN
  IF needsDaemon(w, c) /\ ~isDaemonRunningLocked(w1)
  THEN [tasks |-> tasks, w |-> w1, err |-> StartDaemon(w).err]
  ELSE IF name \notin Tasks
  THEN [tasks |-> tasks, w |-> w1, err |-> "does not exist"]
  ELSE LET s == IF tasks[name].status = "running"
                THEN TaskStop(tasks[name], w1)
                ELSE [task |-> tasks[name], w |-> w1, err |-> "nil"]
           r == TaskStart(s.task, s.w, ok)
           tasks2 == [tasks EXCEPT ![name] = r.task]
       IN IF s.err # "nil"
          THEN [tasks |-> tasks, w |-> s.w, err |-> s.err]
          ELSE IF r.err = "nil"
          THEN [tasks |-> tasks2,
                w |-> saveRuntimeState(tasks2,
                        resetTaskRetryCount(r.w, name)),
                err |-> "nil"]
          ELSE [tasks |-> tasks2, w |-> r.w, err |-> r.err]

\* Manager.restartTask (non-builtin names)
restartTask(tasks, w, c, name, ok) ==
  LET w1 == ensureDaemonForCommand(w, c) IN
  IF name \notin Tasks
  THEN [tasks |-> tasks, w |-> w1, err |-> "does not exist"]
  ELSE LET s == IF tasks[name].status = "running"
                THEN TaskStop(tasks[name], w1)
                ELSE [task |-> tasks[name], w |-> w1, err |-> "nil"]
           r == TaskStart(s.task, s.w, ok)
           tasks2 == [tasks EXCEPT ![name] = r.task]
       IN IF s.err # "nil"
          THEN [tasks |-> tasks, w |-> s.w, err |-> s.err]
          ELSE IF r.err = "nil"
          THEN [tasks |-> tasks2,
                w |-> saveRuntimeState(tasks2,
                        resetTaskRetryCount(r.w, name)),
                err |-> "nil"]
          ELSE [tasks |-> tasks2, w |-> r.w, err |-> r.err]

\* Manager.removeTask: the Task leaves the map of the Manager, so that the
\* document rebuilt by saveRuntimeState has no record of it.
removeTask(tasks, w, name) ==
  IF name \notin Tasks
  THEN [tasks |-> tasks, w |-> w, err |-> "does not exist"]
  ELSE LET s == IF tasks[name].status = "running"
                THEN TaskStop(tasks[name], w)
                ELSE [task |-> tasks[name], w |-> w, err |-> "nil"]
           tasks2 == [tasks EXCEPT ![name] = NewTask]
       IN IF s.err # "nil"
          THEN [tasks |-> tasks, w |-> s.w,
                err |-> "failed to stop task before removal"]
          ELSE [tasks |-> tasks2, w |-> saveRuntimeState(tasks2, s.w),
                err |-> "nil"]

\* Manager.getBuiltinTaskStatus("taskd")
getBuiltinTaskStatus(w) ==
  LET daemonInfo == loadRuntimeState(w)[DAEMON] IN
  IF daemonInfo = NoRec THEN [Status |-> "stopped", PID |-> 0]
  ELSE [Status |-> IF isDaemonRunningLocked(w) THEN "running" ELSE "stopped",
        PID |-> daemonInfo.PID]

\* Manager.listTasks: the daemon entry first, then one entry per Task.
listTasks(tasks, w, c) ==
  LET w1 == ensureDaemonForCommand(w, c) IN
  [w |-> w1,
   list |-> [n \in Names |->
               IF n = DAEMON THEN getBuiltinTaskStatus(w1)
               ELSE GetInfo(tasks[n])]]

\* Manager.getTaskDetailInfo (non-builtin names): the fields of the basic
\* info; the configuration and IO fields do not depend on the daemon.
getTaskDetailInfo(tasks, w, c, name) ==
  LET w1 == ensureDaemonForCommand(w, c) IN
  IF name \notin Tasks
  THEN [w |-> w1, err |-> "does not exist", info |-> [Status |-> "", PID |-> 0]]
  ELSE [w |-> w1, err |-> "nil", info |-> GetInfo(tasks[name])]

----------------------------------------------------------------------------
(* TaskMonitor (daemon.go) *)

\* TaskMonitor.updateTaskExitedStatus
updateTaskExitedStatus(w, taskName, runtimeInfo, exitCode) ==
  LET updatedInfo == [Status |-> "stopped", PID |-> 0, ExitCode |-> exitCode,
                      StoppedByTaskd |-> FALSE,
                      RetryNum |-> runtimeInfo.RetryNum]
  IN saveRuntimeStateWithData(w,
       [loadRuntimeState(w) EXCEPT ![taskName] = updatedInfo])

\* TaskMonitor.checkTaskProcess
checkTaskProcess(w, taskName, runtimeInfo) ==
  IF ~CheckTaskProcess(runtimeInfo.PID, w.alive).Exists
  THEN updateTaskExitedStatus(w, taskName, runtimeInfo,
                              getProcessExitCode(runtimeInfo.PID, w.alive))
  ELSE w

\* shouldRetryTask without its AutoStart test.
shouldRetryTask_IgnoresAutoStart(c, taskName, runtimeInfo) ==
  /\ taskName # "taskd"
  /\ taskName \in Tasks
  /\ runtimeInfo.Status = "stopped"
  /\ ~runtimeInfo.StoppedByTaskd
  /\ (c[taskName].MaxRetryNum <= 0
        \/ runtimeInfo.RetryNum < c[taskName].MaxRetryNum)

\* TaskMonitor.shouldRetryTask; getTaskConfig finds a definition for the
\* names in Tasks only.
shouldRetryTask(c, taskName, runtimeInfo) ==
  /\ taskName # "taskd"
  /\ taskName \in Tasks
  /\ c[taskName].AutoStart
  /\ runtimeInfo.Status = "stopped"
  /\ ~runtimeInfo.StoppedByTaskd
  /\ (c[taskName].MaxRetryNum <= 0
        \/ runtimeInfo.RetryNum < c[taskName].MaxRetryNum)

\* TaskMonitor.shouldLogRetryLimitReached
shouldLogRetryLimitReached(c, taskName, runtimeInfo) ==
  /\ taskName # "taskd"
  /\ taskName \in Tasks
  /\ c[taskName].AutoStart
  /\ runtimeInfo.Status = "stopped"
  /\ ~runtimeInfo.StoppedByTaskd
  /\ c[taskName].MaxRetryNum > 0
  /\ runtimeInfo.RetryNum >= c[taskName].MaxRetryNum

\* TaskMonitor.incrementRetryCount
incrementRetryCount(w, taskName) ==
  LET state == loadRuntimeState(w) IN
  IF state[taskName] = NoRec THEN w
  ELSE saveRuntimeStateWithData(w,
         [state EXCEPT ![taskName].RetryNum = @ + 1])

\* TaskMonitor.handleRetryFailure (with updateTaskState)
handleRetryFailure(w, taskName) ==
  LET state == loadRuntimeState(w) IN
  IF state[taskName] = NoRec THEN w
  ELSE LET failedInfo == [Status |-> "stopped", PID |-> 0, ExitCode |-> -1,
                          StoppedByTaskd |-> FALSE,
                          RetryNum |-> state[taskName].RetryNum]
       IN saveRuntimeStateWithData(w,
            [loadRuntimeState(w) EXCEPT ![taskName] = failedInfo])

\* TaskMonitor.retryTask
retryTask(tasks, w, c, taskName, ok) ==
  LET r == startTask(tasks, w, c, taskName, ok) IN
  IF r.err # "nil"
  THEN [tasks |-> r.tasks, w |-> handleRetryFailure(r.w, taskName),
        started |-> FALSE]
  ELSE [tasks |-> r.tasks, w |-> incrementRetryCount(r.w, taskName),
        started |-> TRUE]

\* checkOne that leaves the loop once a restart has failed.
checkOne_StopsAfterFailure(st, c, state, taskName, ok) ==
  IF st.attempted \ st.restarted # {} THEN st ELSE
  LET runtimeInfo == state[taskName]
      w1 == IF runtimeInfo.Status = "running"
            THEN checkTaskProcess(st.w, taskName, runtimeInfo)
            ELSE st.w
  IN IF taskName = "taskd" THEN st
     ELSE IF shouldRetryTask(c, taskName, runtimeInfo)
     THEN LET r == retryTask(st.tasks, w1, c, taskName, ok[taskName])
          IN [tasks |-> r.tasks, w |-> r.w,
              attempted |-> st.attempted \cup {taskName},
              restarted |-> IF r.started
                            THEN st.restarted \cup {taskName}
                            ELSE st.restarted,
              logged |-> st.logged]
     ELSE [st EXCEPT !.w = w1,
                     !.logged =
                        IF shouldLogRetryLimitReached(c, taskName, runtimeInfo)
                        THEN @ \cup {taskName} ELSE @]

\* The body of the loop of checkAndRestartTasks for one record of the
\* document loaded at the start of the tick.
checkOne(st, c, state, taskName, ok) ==
  LET runtimeInfo == state[taskName]
      w1 == IF runtimeInfo.Status = "running"
            THEN checkTaskProcess(st.w, taskName, runtimeInfo)
            ELSE st.w
  IN IF taskName = "taskd" THEN st
     ELSE IF shouldRetryTask(c, taskName, runtimeInfo)
     THEN LET r == retryTask(st.tasks, w1, c, taskName, ok[taskName])
          IN [tasks |-> r.tasks, w |-> r.w,
              attempted |-> st.attempted \cup {taskName},
              restarted |-> IF r.started
                            THEN st.restarted \cup {taskName}
                            ELSE st.restarted,
              logged |-> st.logged]
     ELSE [st EXCEPT !.w = w1,
                     !.logged =
                        IF shouldLogRetryLimitReached(c, taskName, runtimeInfo)
                        THEN @ \cup {taskName} ELSE @]

RECURSIVE checkLoop(_, _, _, _, _)
checkLoop(st, c, state, order, ok) ==
  IF order = << >> THEN st
  ELSE checkLoop(checkOne(st, c, state, Head(order), ok),
                 c, state, Tail(order), ok)

\* TaskMonitor.checkAndRestartTasks.  order: the order in which the map of
\* records is ranged over; ok: whether a spawn of each task would succeed.
checkAndRestartTasks(tasks, w, c, order, ok) ==
  checkLoop([tasks |-> tasks, w |-> w, attempted |-> {}, restarted |-> {},
             logged |-> {}],
            c, loadRuntimeState(w), order, ok)

\* The orders in which a map with the keys S can be ranged over.
Orders(S) ==
  { o \in [1..Cardinality(S) -> S] :
      \A i, j \in 1..Cardinality(S) : o[i] = o[j] => i = j }

----------------------------------------------------------------------------
(* Steps *)

EmptyDoc == [n \in Names |-> NoRec]

\* The state file and the OS as a handler finds them.
Now == World(doc, alive, nextPid)

\* The records a tick ranges over, and those it will try to restart.
Recorded == {t \in Tasks : doc[t] # NoRec}

Eligible == {t \in Tasks : shouldRetryTask(cfg, t, doc[t])}

\* taskd start <name>: GetManager, then Manager.StartTask.
StartCommand(name, ok) ==
  LET m == GetManager(Now) IN startTask(m.tasks, m.w, cfg, name, ok)

\* taskd stop <name>: GetManager, then Manager.StopTask.
StopCommand(name) ==
  LET m == GetManager(Now) IN stopTask(m.tasks, m.w, name)

\* taskd restart <name>: GetManager, then Manager.RestartTask.
RestartCommand(name, ok) ==
  LET m == GetManager(Now) IN restartTask(m.tasks, m.w, cfg, name, ok)

\* taskd list: GetManager, then ListTasks.
ListCommand ==
  LET m == GetManager(Now) IN listTasks(m.tasks, m.w, cfg)

\* NewTaskMonitor in the daemon process: its Manager is built once.
NewTaskMonitor == GetManager(Now)

\* One tick of the monitor in the daemon process.
MonitorTick(order, ok) == checkAndRestartTasks(dTasks, Now, cfg, order, ok)

\* Manager.onTaskExit in the daemon process, after its delay.
onTaskExit == saveRuntimeState(dTasks, Now)

\* The daemon process exists and its monitor loop is running.
Monitoring == dPid \in alive /\ dInit

\* Process ids are bounded: a handler runs if the ids it needs exist.
Fits(w) == w.nextPid <= MaxPid + 1

\* The state file and the OS after a handler.
Commit(w) ==
  /\ Fits(w)
  /\ doc' = w.doc
  /\ alive' = w.alive
  /\ nextPid' = w.nextPid

\* A handler of a command process that spawned a daemon leaves a daemon
\* process that has not yet constructed its monitor.
CommitCommand(w) ==
  /\ Commit(w)
  /\ IF w.dspawn # 0
     THEN /\ dPid' = w.dspawn
          /\ dInit' = FALSE
          /\ dTasks' = NoTasks
          /\ dReap' = NoReapers
          /\ dSaves' = 0
     ELSE UNCHANGED <<dPid, dInit, dTasks, dReap, dSaves>>

\* The pids of s whose processes exist among al, 0 for the others.
Live(s, al) == [t \in Tasks |-> IF s[t] \in al THEN s[t] ELSE 0]

\* History after a manual start or restart of name with result r.
Started(name, r) ==
  /\ restarts' = [restarts EXCEPT ![name] = 0]
  /\ opStopped' = [opStopped EXCEPT ![name] =
                     IF r.err = "nil" THEN "no" ELSE "tried"]
  /\ IF r.err = "nil"
     THEN /\ started' = Live([started EXCEPT ![name] = r.tasks[name].pid],
                            r.w.alive)
          /\ resetFrom' = [resetFrom EXCEPT ![name] = doc[name].RetryNum]
     ELSE /\ started' = Live(started, r.w.alive)
          /\ UNCHANGED resetFrom

Init ==
  /\ doc = EmptyDoc
  /\ alive = {}
  /\ nextPid = 1
  /\ cfg \in Definitions
  /\ dPid = 0
  /\ dInit = FALSE
  /\ dTasks = NoTasks
  /\ dReap = NoReapers
  /\ dSaves = 0
  /\ started = [t \in Tasks |-> 0]
  /\ restarts = [t \in Tasks |-> 0]
  /\ opStopped = [t \in Tasks |-> "no"]
  /\ resetFrom = [t \in Tasks |-> 0]
  /\ dir = EmptyDir
  /\ wr = Closed
  /\ lastWrite = NoWrite
  /\ ens = [p \in Procs |-> Idle]
  /\ daemons = {}
  /\ stp = NoStop
  /\ mon = NoTick
  /\ val = NoCall
  /\ cmd = [p \in Procs |-> NoCmd]
  /\ loop = NoLoop

\* taskd start <name>: a command process runs Manager.StartTask and exits.
CmdStart(name, ok) ==
  LET r == StartCommand(name, ok)
  IN /\ CommitCommand(r.w)
     /\ Started(name, r)
     /\ UNCHANGED cfg
     /\ UNCHANGED <<storeVars, callVars, raceVars>>

\* taskd stop <name>: a command process runs Manager.StopTask and exits.
CmdStop(name) ==
  LET r == StopCommand(name)
  IN /\ CommitCommand(r.w)
     /\ opStopped' = [opStopped EXCEPT ![name] =
                        IF r.err = "nil" \/ @ = "stopped"
                        THEN "stopped" ELSE "tried"]
     /\ started' = Live(started, r.w.alive)
     /\ UNCHANGED <<cfg, restarts, resetFrom>>
     /\ UNCHANGED <<storeVars, callVars, raceVars>>

\* taskd restart <name>: a command process runs Manager.RestartTask and exits.
CmdRestart(name, ok) ==
  LET r == RestartCommand(name, ok)
  IN /\ CommitCommand(r.w)
     /\ Started(name, r)
     /\ UNCHANGED cfg
     /\ UNCHANGED <<storeVars, callVars, raceVars>>

\* taskd list: a command process runs ListTasks and exits.
CmdList ==
  /\ CommitCommand(ListCommand.w)
  /\ UNCHANGED <<cfg, started, restarts, opStopped, resetFrom>>
  /\ UNCHANGED <<storeVars, callVars, raceVars>>

\* The daemon process starts up: runDaemonMode, NewTaskMonitor, GetManager.
DaemonInit ==
  /\ dPid \in alive
  /\ ~dInit
  /\ Commit(NewTaskMonitor.w)
  /\ dTasks' = NewTaskMonitor.tasks
  /\ dReap' = restoredReapers(NewTaskMonitor.tasks)
  /\ dInit' = TRUE
  /\ UNCHANGED <<cfg, dPid, dSaves, started, restarts, opStopped, resetFrom>>
  /\ UNCHANGED <<storeVars, callVars, raceVars>>

\* checkAndRestartTasks in the daemon process: what one tick does to the
\* state file, the OS and the daemon's Manager.
TickBody(order, ok) ==
  /\ Monitoring
  /\ LET st == MonitorTick(order, ok)
     IN /\ Commit(st.w)
        /\ dTasks' = st.tasks
        /\ dReap' = [t \in Tasks |->
                       IF t \in st.restarted
                       THEN dReap[t] \cup {st.tasks[t].pid} ELSE dReap[t]]
        /\ dPid' = IF st.w.dspawn # 0 THEN st.w.dspawn ELSE dPid
        /\ restarts' = [t \in Tasks |->
                          IF t \in st.restarted
                          THEN restarts[t] + 1 ELSE restarts[t]]
  /\ UNCHANGED <<cfg, dInit, dSaves, started, opStopped, resetFrom>>
  /\ UNCHANGED <<storeVars, raceVars>>

\* One tick of TaskMonitor.Start: checkAndRestartTasks in the daemon.
Tick(order, ok) ==
  /\ TickBody(order, ok)
  /\ UNCHANGED callVars

\* A reaper goroutine of the daemon (Task.waitForExit or
\* Task.monitorExistingProcess) sees its process exit and calls onExit.
Reap(t, pid) ==
  /\ dPid \in alive
  /\ pid \in dReap[t]
  /\ pid \notin alive
  /\ dTasks' = [dTasks EXCEPT ![t] = [status |-> "stopped", pid |-> 0]]
  /\ dReap' = [dReap EXCEPT ![t] = @ \ {pid}]
  /\ dSaves' = dSaves + 1
  /\ UNCHANGED <<doc, alive, nextPid, cfg, dPid, dInit, started, restarts,
                 opStopped, resetFrom>>
  /\ UNCHANGED <<storeVars, callVars, raceVars>>

\* Manager.onTaskExit in the daemon: the delayed saveRuntimeState.
ExitSave ==
  /\ dPid \in alive
  /\ dSaves > 0
  /\ Commit(onTaskExit)
  /\ dSaves' = dSaves - 1
  /\ UNCHANGED <<cfg, dPid, dInit, dTasks, dReap, started, restarts, opStopped,
                 resetFrom>>
  /\ UNCHANGED <<storeVars, callVars, raceVars>>

\* The OS process of a task exits or is killed from outside.
ProcessExit(pid) ==
  /\ pid \in alive
  /\ pid # dPid
  /\ alive' = alive \ {pid}
  /\ started' = Live(started, alive \ {pid})
  /\ UNCHANGED <<doc, nextPid, cfg, dPid, dInit, dTasks, dReap, dSaves,
                 restarts, opStopped, resetFrom>>
  /\ UNCHANGED <<storeVars, callVars, raceVars>>

\* The daemon process is killed from outside; its goroutines go with it.
DaemonExit ==
  /\ dPid \in alive
  /\ alive' = alive \ {dPid}
  /\ dPid' = 0
  /\ dInit' = FALSE
  /\ dTasks' = NoTasks
  /\ dReap' = NoReapers
  /\ dSaves' = 0
  /\ UNCHANGED <<doc, nextPid, cfg, started, restarts, opStopped, resetFrom>>
  /\ UNCHANGED <<storeVars, callVars, raceVars>>

Next ==
  \/ \E name \in Tasks, ok \in BOOLEAN : CmdStart(name, ok)
  \/ \E name \in Tasks : CmdStop(name)
  \/ \E name \in Tasks, ok \in BOOLEAN : CmdRestart(name, ok)
  \/ CmdList
  \/ DaemonInit
  \/ \E order \in Orders(Recorded), ok \in [Eligible -> BOOLEAN] :
        Tick(order, ok)
  \/ \E t \in Tasks, pid \in 1..MaxPid : Reap(t, pid)
  \/ ExitSave
  \/ \E pid \in 1..MaxPid : ProcessExit(pid)
  \/ DaemonExit

Spec == Init /\ [][Next]_vars

\* The daemon's goroutines get to run: the polling loop, the reapers and
\* the delayed saves.
FairSpec ==
  /\ Spec
  /\ WF_vars(DaemonInit)
  /\ WF_vars(\E order \in Orders(Recorded), ok \in [Eligible -> BOOLEAN] :
                Tick(order, ok))
  /\ WF_vars(\E t \in Tasks, pid \in 1..MaxPid : Reap(t, pid))
  /\ WF_vars(ExitSave)

----------------------------------------------------------------------------
(* Sanity of the model *)

TypeOK ==
  /\ alive \subseteq 1..MaxPid
  /\ nextPid \in 1..(MaxPid + 1)
  /\ dPid \in 0..MaxPid
  /\ dSaves \in 0..MaxPid

\* The model keeps one daemon process: none is spawned while one exists.
OneDaemonSlot ==
  dPid # 0 => /\ dPid \in alive
              /\ doc[DAEMON] # NoRec
              /\ doc[DAEMON].Status = "running"
              /\ doc[DAEMON].PID = dPid

----------------------------------------------------------------------------
(* Automatic restart *)

\* Every way a tick can run from the current state: the order in which the
\* records are ranged over and the outcome of each spawn.
TickRuns ==
  { MonitorTick(order, ok) :
      order \in Orders(Recorded), ok \in [Eligible -> BOOLEAN] }

\* The retry limit of the definition of t allows one more restart after n.
UnderLimit(t, n) == cfg[t].MaxRetryNum <= 0 \/ n < cfg[t].MaxRetryNum

C2_AtMostLimitRestarts ==
  Monitoring =>
    \A st \in TickRuns :
      Fits(st.w) =>
        \A t \in st.restarted :
          cfg[t].AutoStart /\ cfg[t].MaxRetryNum > 0 =>
            /\ restarts[t] < cfg[t].MaxRetryNum
            /\ st.w.doc[t].RetryNum = restarts[t] + 1

\* The process recorded for t died without an operator stop, t is under
\* its retry limit, and the daemon is monitoring and can spawn.
Crashed(t) ==
  /\ cfg[t].AutoStart
  /\ opStopped[t] = "no"
  /\ doc[t].Status = "running"
  /\ doc[t].PID \notin alive
  /\ UnderLimit(t, doc[t].RetryNum)
  /\ Monitoring
  /\ nextPid <= MaxPid

\* t has a running record whose process exists.
RunningAgain(t) == doc[t].Status = "running" /\ doc[t].PID \in alive

\* What releases the monitor from healing t: the operator issued a stop of
\* t, the daemon is gone or not monitoring, or no process id is left.
Released(t) == opStopped[t] # "no" \/ ~Monitoring \/ nextPid > MaxPid

\* C3: if the process of an AutoStart task dies without an operator stop
\* while the task is under its retry limit and the daemon keeps ticking,
\* then eventually the task is running again with a running record.
C3_CrashedTaskRunsAgain ==
  \A t \in Tasks : Crashed(t) ~> (RunningAgain(t) \/ Released(t))

\* C4: after an operator stop of a running task has completed, no tick
\* restarts the task until it is started or restarted manually.
C4_NoRestartAfterOperatorStop ==
  Monitoring =>
    \A st \in TickRuns :
      Fits(st.w) =>
        \A t \in Tasks : opStopped[t] = "stopped" => t \notin st.restarted

\* C5: after stopTask(name) returns for a task that has a record, the
\* persisted record of the task is stopped and marked stopped by the
\* operator.
C5_StopPersistsOperatorStop ==
  \A name \in Recorded :
    LET d == StopCommand(name).w.doc
    IN d[name].Status = "stopped" /\ d[name].StoppedByTaskd

\* C6: whenever a manual start or restart of a task succeeds, the
\* persisted retry count of the task is 0 afterwards.
C6_ManualStartResetsRetryCount ==
  \A name \in Tasks, ok \in BOOLEAN :
    \A r \in {StartCommand(name, ok), RestartCommand(name, ok)} :
      r.err = "nil" /\ Fits(r.w) => r.w.doc[name].RetryNum = 0

\* A manual start or restart found a positive retry count and left 0.
C6_Witness ==
  \E t \in Tasks :
    /\ resetFrom[t] > 0
    /\ restarts[t] = 0
    /\ doc[t].Status = "running"
    /\ doc[t].PID = started[t]
    /\ doc[t].RetryNum = 0

\* C7: each successful automatic restart leaves the persisted retry count
\* of the task one greater than before the restart, the record running,
\* and its pid different from that of the dead process.
C7_RestartIncrementsRetryCount ==
  Monitoring =>
    \A st \in TickRuns :
      Fits(st.w) =>
        \A t \in st.restarted :
          /\ st.w.doc[t].RetryNum = doc[t].RetryNum + 1
          /\ st.w.doc[t].Status = "running"
          /\ st.w.doc[t].PID >= nextPid

\* C8: one tick that finds a running record whose process was killed
\* (no operator command on the task having failed or stopped it), the task
\* being eligible, leaves the task running again with its retry count
\* raised by one and a new pid.
C8_KilledTaskRestartedInSameTick ==
  Monitoring /\ nextPid <= MaxPid =>
    \A st \in TickRuns :
      \A t \in Recorded :
        /\ doc[t].Status = "running"
        /\ doc[t].PID \notin alive
        /\ opStopped[t] = "no"
        /\ cfg[t].AutoStart
        /\ UnderLimit(t, doc[t].RetryNum)
        => /\ st.w.doc[t].Status = "running"
           /\ st.w.doc[t].PID \in st.w.alive
           /\ st.w.doc[t].PID # doc[t].PID
           /\ st.w.doc[t].RetryNum = doc[t].RetryNum + 1

----------------------------------------------------------------------------
(* The persisted document *)

\* Every document a handler that can run now writes to the state file,
\* including those it overwrites before it returns.
Written ==
  UNION { UNION { StartCommand(name, ok).w.writes
                    \cup RestartCommand(name, ok).w.writes :
                  name \in Tasks, ok \in BOOLEAN },
          UNION { StopCommand(name).w.writes : name \in Tasks },
          ListCommand.w.writes,
          IF dPid \in alive /\ ~dInit THEN NewTaskMonitor.w.writes ELSE {},
          IF Monitoring THEN UNION { st.w.writes : st \in TickRuns } ELSE {},
          IF dPid \in alive /\ dSaves > 0 THEN onTaskExit.writes ELSE {} }

\* A running record has a pid, and a record without a pid is not running.
ConsistentDoc(d) ==
  \A n \in Names :
    /\ d[n].Status = "running" => d[n].PID > 0
    /\ d[n] # NoRec /\ d[n].PID = 0 => d[n].Status # "running"

\* C9: in every state of the persisted document, every record (task or
\* daemon) that is running has pid > 0, and every record with pid 0 has a
\* status other than running.
C9_RunningRecordHasPid ==
  \A d \in {doc} \cup Written : ConsistentDoc(d)

\* The document holds a running record with a pid and a stopped record
\* without one, and a stop that can run now writes another such record.
C9_Witness ==
  /\ doc[DAEMON].Status = "running" /\ doc[DAEMON].PID > 0
  /\ \E t \in Tasks : doc[t].Status = "stopped" /\ doc[t].PID = 0
  /\ \E t \in Tasks :
       /\ doc[t].Status = "running"
       /\ \E d \in StopCommand(t).w.writes :
            d[t].Status = "stopped" /\ d[t].PID = 0

\* C10: if a command process started t and t's process still exists, a
\* later command process lists t as running with the pid of that process.
C10_ListShowsStartedTask ==
  \A t \in Tasks :
    started[t] \in alive /\ restarts[t] = 0 /\ Fits(ListCommand.w) =>
      ListCommand.list[t] = [Status |-> "running", PID |-> started[t]]

----------------------------------------------------------------------------
(* The state directory as files                                             *)
(*                                                                         *)
(* runtime.json is read and written by two pieces of code.  The Manager    *)
(* (and through it the DaemonManager and the TaskMonitor) uses os.ReadFile *)
(* and os.WriteFile on the file itself.  FileStateManager copies the file  *)
(* to a backup, writes a temporary file and renames it over the target,    *)
(* and recovers from the backup when the file does not parse.  A file is a *)
(* sequence of JSON tokens: an opening brace, one token per entry of       *)
(* RuntimeState.Tasks, a closing brace.  os.WriteFile opens the file with  *)
(* O_TRUNC and then writes; a file that is open for writing cannot be      *)
(* renamed or replaced by a rename (Go opens files on Windows without      *)
(* FILE_SHARE_DELETE).                                                     *)

jsonOpen == [tok |-> "{"]

jsonClose == [tok |-> "}"]

\* A TaskRuntimeInfo marshalled without its stopped_by_taskd field.
MarshalInfo_WithoutStoppedByTaskd(name, info) ==
  IF info.ExitCode = 0
  THEN [tok |-> "task", name |-> name, status |-> info.Status,
        pid |-> info.PID, retry_num |-> info.RetryNum]
  ELSE [tok |-> "task", name |-> name, status |-> info.Status,
        pid |-> info.PID, exit_code |-> info.ExitCode,
        retry_num |-> info.RetryNum]

\* encoding/json on a TaskRuntimeInfo: exit_code is tagged omitempty and is
\* left out when it is 0.
MarshalInfo(name, info) ==
  IF info.ExitCode = 0
  THEN [tok |-> "task", name |-> name, status |-> info.Status,
        pid |-> info.PID, stopped_by_taskd |-> info.StoppedByTaskd,
        retry_num |-> info.RetryNum]
  ELSE [tok |-> "task", name |-> name, status |-> info.Status,
        pid |-> info.PID, exit_code |-> info.ExitCode,
        stopped_by_taskd |-> info.StoppedByTaskd,
        retry_num |-> info.RetryNum]

\* encoding/json writes the keys of a map in sorted order.
KeyOrder == <<"t1", "t2", "taskd">>

RECURSIVE MarshalTasks(_, _)
MarshalTasks(state, i) ==
  IF i > Len(KeyOrder) THEN <<>>
  ELSE (IF state[KeyOrder[i]] = NoRec THEN <<>>
        ELSE <<MarshalInfo(KeyOrder[i], state[KeyOrder[i]])>>)
       \o MarshalTasks(state, i + 1)

\* json.MarshalIndent(state, "", "  ").
Marshal(state) == <<jsonOpen>> \o MarshalTasks(state, 1) \o <<jsonClose>>

\* encoding/json into a TaskRuntimeInfo: a field the text lacks keeps its
\* zero value.
Field(tok, key, zero) == IF key \in DOMAIN tok THEN tok[key] ELSE zero

UnmarshalInfo(tok) ==
  [Status |-> Field(tok, "status", ""),
   PID |-> Field(tok, "pid", 0),
   ExitCode |-> Field(tok, "exit_code", 0),
   StoppedByTaskd |-> Field(tok, "stopped_by_taskd", FALSE),
   RetryNum |-> Field(tok, "retry_num", 0)]

\* The text is one complete JSON object.
ValidJSON(data) ==
  /\ Len(data) >= 2
  /\ data[1].tok = "{"
  /\ data[Len(data)].tok = "}"
  /\ \A i \in 2..(Len(data) - 1) : data[i].tok = "task"

\* json.Unmarshal(data, &state), followed by the replacement of a nil Tasks
\* map by an empty one that every caller does.
Unmarshal(data) ==
  IF ValidJSON(data)
  THEN [err |-> "nil",
        state |-> [n \in Names |->
                     IF \E i \in 2..(Len(data) - 1) : data[i].name = n
                     THEN UnmarshalInfo(
                            data[CHOOSE i \in 2..(Len(data) - 1) :
                                   data[i].name = n])
                     ELSE NoRec]]
  ELSE [err |-> "syntax", state |-> EmptyDoc]

\* os.ReadFile(path).
ReadFile(d, path) ==
  IF d[path].exists THEN [err |-> "nil", data |-> d[path].data]
  ELSE [err |-> "notexist", data |-> <<>>]

\* os.WriteFile(path, data, 0644) from open to close, on a path no other
\* process has open.
PutFile(d, path, data) == [d EXCEPT ![path] = File(data)]

\* os.Remove(path).
Remove(d, path) == [d EXCEPT ![path] = NoFile]

\* os.Rename(src, dst); h: a Manager has runtime.json open for writing.
Rename(d, h, src, dst) ==
  IF ~d[src].exists THEN [err |-> "notexist", dir |-> d]
  ELSE IF h /\ statePath \in {src, dst} THEN [err |-> "sharing", dir |-> d]
  ELSE [err |-> "nil", dir |-> [d EXCEPT ![dst] = d[src], ![src] = NoFile]]

\* Manager.loadRuntimeState on the files: an unreadable or unparseable file
\* is an empty RuntimeState.
loadRuntimeStateFile(d) ==
  LET rd == ReadFile(d, statePath)
  IN IF rd.err # "nil" THEN EmptyDoc
     ELSE IF Unmarshal(rd.data).err # "nil" THEN EmptyDoc
     ELSE Unmarshal(rd.data).state

\* Manager.saveRuntimeStateWithData run from the open to the close of its
\* os.WriteFile.
saveRuntimeStateFile(d, state) == PutFile(d, statePath, Marshal(state))

\* FileStateManager.copyFile.
copyFile(d, src, dst) ==
  LET rd == ReadFile(d, src)
  IN IF rd.err # "nil" THEN [err |-> rd.err, dir |-> d]
     ELSE [err |-> "nil", dir |-> PutFile(d, dst, rd.data)]

\* FileStateManager.saveRuntimeStateUnsafe: backup (a failure is only
\* logged), temporary file, rename.
saveRuntimeStateUnsafe(d, h, state) ==
  LET d1 == IF d[statePath].exists
            THEN copyFile(d, statePath, backupPath).dir ELSE d
      d2 == PutFile(d1, tempPath, Marshal(state))
      r == Rename(d2, h, tempPath, statePath)
  IN IF r.err = "nil" THEN [err |-> "nil", dir |-> r.dir]
     ELSE [err |-> "rename", dir |-> Remove(d2, tempPath)]

\* FileStateManager.recoverCorruptedState; save: what writing the recovered
\* state back to runtime.json returned, "none" when it was not tried.
recoverCorruptedState(d, h) ==
  IF d[backupPath].exists
  THEN LET u == Unmarshal(ReadFile(d, backupPath).data)
       IN IF u.err # "nil"
          THEN [err |-> "corrupted", state |-> EmptyDoc, dir |-> d,
                save |-> "none"]
          ELSE LET sv == saveRuntimeStateUnsafe(d, h, u.state)
               IN [err |-> "nil", state |-> u.state, dir |-> sv.dir,
                   save |-> sv.err]
  ELSE [err |-> "nobackup", state |-> EmptyDoc, dir |-> d, save |-> "none"]

\* FileStateManager.backupCorruptedState: a failed rename is only logged.
backupCorruptedState(d, h) == Rename(d, h, statePath, corruptedPath).dir

\* FileStateManager.loadRuntimeStateUnsafe.
loadRuntimeStateUnsafe(d, h) ==
  LET rd == ReadFile(d, statePath)
      u == Unmarshal(rd.data)
      rec == recoverCorruptedState(d, h)
  IN IF rd.err # "nil"
     THEN [err |-> "nil", state |-> EmptyDoc, dir |-> d, save |-> "none"]
     ELSE IF u.err = "nil"
     THEN [err |-> "nil", state |-> u.state, dir |-> d, save |-> "none"]
     ELSE IF rec.err = "nil"
     THEN [err |-> "nil", state |-> rec.state, dir |-> rec.dir,
           save |-> rec.save]
     ELSE [err |-> "nil", state |-> EmptyDoc,
           dir |-> backupCorruptedState(d, h), save |-> "none"]

\* FileStateManager.GetRuntimeState and SaveRuntimeState.
GetRuntimeState(d, h) == loadRuntimeStateUnsafe(d, h)

SaveRuntimeState(d, h, state) == saveRuntimeStateUnsafe(d, h, state)

\* The documents the writers of this section write.
Rec(status, pid, exitCode, stopped, retryNum) ==
  [Status |-> status, PID |-> pid, ExitCode |-> exitCode,
   StoppedByTaskd |-> stopped, RetryNum |-> retryNum]

StoreDocs ==
  { [EmptyDoc EXCEPT !["t1"] = Rec("running", 1, 0, FALSE, 0)],
    [EmptyDoc EXCEPT !["t1"] = Rec("stopped", 0, 1, TRUE, 1),
                     ![DAEMON] = Rec("running", 2, 0, FALSE, 0)] }

\* A Manager's os.WriteFile(statePath, data, 0644) opens the file: O_CREATE
\* and O_TRUNC leave it empty.
WriteOpen(state) ==
  /\ ~wr.open
  /\ wr' = [open |-> TRUE, data |-> Marshal(state), prev |-> dir[statePath]]
  /\ dir' = [dir EXCEPT ![statePath] = File(<<>>)]
  /\ UNCHANGED lastWrite
  /\ UNCHANGED <<coreVars, raceVars, callVars>>

\* The write system calls of that os.WriteFile.
WriteData ==
  /\ wr.open
  /\ Len(dir[statePath].data) < Len(wr.data)
  /\ dir' = [dir EXCEPT ![statePath] =
               File(Append(@.data, wr.data[Len(@.data) + 1]))]
  /\ UNCHANGED <<wr, lastWrite>>
  /\ UNCHANGED <<coreVars, raceVars, callVars>>

\* That os.WriteFile closes the file and returns nil.
WriteClose ==
  /\ wr.open
  /\ Len(dir[statePath].data) = Len(wr.data)
  /\ wr' = Closed
  /\ lastWrite' = [by |-> "Manager", err |-> "nil", prev |-> wr.prev]
  /\ UNCHANGED dir
  /\ UNCHANGED <<coreVars, raceVars, callVars>>

\* The writing process is killed before os.WriteFile returns.
WriterKilled ==
  /\ wr.open
  /\ wr' = Closed
  /\ UNCHANGED <<dir, lastWrite>>
  /\ UNCHANGED <<coreVars, raceVars, callVars>>

\* FileStateManager.SaveRuntimeState in some process.
StoreSave(state) ==
  LET r == SaveRuntimeState(dir, wr.open, state)
  IN /\ dir' = r.dir
     /\ lastWrite' = [by |-> "FileStateManager", err |-> r.err,
                      prev |-> dir[statePath]]
     /\ UNCHANGED wr
     /\ UNCHANGED <<coreVars, raceVars, callVars>>

\* FileStateManager.GetRuntimeState in some process.
StoreGet ==
  LET r == GetRuntimeState(dir, wr.open)
  IN /\ dir' = r.dir
     /\ lastWrite' = IF r.save # "none"
                     THEN [by |-> "recovery", err |-> r.save,
                           prev |-> dir[statePath]]
                     ELSE lastWrite
     /\ UNCHANGED wr
     /\ UNCHANGED <<coreVars, raceVars, callVars>>

\* The state directory before the first command, under one set of task
\* definitions.
StoreInit ==
  /\ Init
  /\ ~cfg["t2"].AutoStart

StoreNext ==
  \/ \E state \in StoreDocs : WriteOpen(state)
  \/ WriteData
  \/ WriteClose
  \/ WriterKilled
  \/ \E state \in StoreDocs : StoreSave(state)
  \/ StoreGet

StoreSpec == StoreInit /\ [][StoreNext]_vars

----------------------------------------------------------------------------
(* Claims about the state directory *)

\* What a process that reads runtime.json now gets from os.ReadFile parses.
ReadsWholeDocument ==
  dir[statePath].exists => Unmarshal(ReadFile(dir, statePath).data).err = "nil"

\* C11: no reader in any process ever observes a partially written runtime
\* state document: at every moment, also while a write by the Manager, the
\* DaemonManager, the TaskMonitor or FileStateManager is in progress or was
\* cut short, the content of runtime.json is one complete document.  Stated
\* for the moments after some write of runtime.json has succeeded.
C11_NoPartialDocumentObserved ==
  lastWrite.by # "none" /\ lastWrite.err = "nil" => ReadsWholeDocument

\* The last write of runtime.json succeeded and replaced a complete
\* document.
OverwroteDocument ==
  /\ lastWrite.by # "none"
  /\ lastWrite.err = "nil"
  /\ lastWrite.prev.exists
  /\ Unmarshal(lastWrite.prev.data).err = "nil"

\* The backup file holds the version the last write replaced.
BackupIsPrevious ==
  /\ dir[backupPath].exists
  /\ dir[backupPath].data = lastWrite.prev.data
  /\ Unmarshal(ReadFile(dir, backupPath).data).err = "nil"

\* C12: after every successful write of the runtime state document a backup
\* file exists whose content is the version that was just overwritten, and
\* that backup parses.  Stated for writes that replace a complete document.
C12_BackupOfOverwrittenVersion == OverwroteDocument => BackupIsPrevious

\* The two readers of runtime.json: Manager.loadRuntimeState, which every
\* command and the daemon use, and FileStateManager.GetRuntimeState.
Readers == {"Manager", "FileStateManager"}

\* What a read by the reader returns and the files it leaves.
ReadBy(reader, d, h) ==
  IF reader = "Manager"
  THEN [err |-> "nil", state |-> loadRuntimeStateFile(d), dir |-> d]
  ELSE [err |-> GetRuntimeState(d, h).err,
        state |-> GetRuntimeState(d, h).state,
        dir |-> GetRuntimeState(d, h).dir]

\* runtime.json is at rest and does not parse.
CorruptedPrimary ==
  /\ ~wr.open
  /\ dir[statePath].exists
  /\ Unmarshal(dir[statePath].data).err # "nil"

ValidBackup ==
  /\ dir[backupPath].exists
  /\ Unmarshal(dir[backupPath].data).err = "nil"

\* The reader gets the backup's content, and reading again gets it too.
RecoversFromBackup(reader) ==
  LET r == ReadBy(reader, dir, wr.open)
  IN /\ r.err = "nil"
     /\ r.state = Unmarshal(dir[backupPath].data).state
     /\ ReadBy(reader, r.dir, wr.open).state = r.state
     /\ Unmarshal(r.dir[statePath].data).err = "nil"

\* C13: reading the runtime state document when the primary file is
\* corrupted and a valid backup exists returns the backup's content, and
\* afterwards the primary file has been rewritten so that a further read
\* returns that same content; for every reader of the document.
C13_CorruptedPrimaryReadsBackup ==
  CorruptedPrimary /\ ValidBackup =>
    \A reader \in Readers : RecoversFromBackup(reader)

\* The reader gets an empty document and no error, and the corrupted file
\* no longer is where the next read looks.
QuarantinesCorruption(reader) ==
  LET r == ReadBy(reader, dir, wr.open)
  IN /\ r.err = "nil"
     /\ r.state = EmptyDoc
     /\ ~r.dir[statePath].exists
     /\ r.dir[corruptedPath] = dir[statePath]

\* C14: reading the runtime state document when the primary file is
\* corrupted and no valid backup is available returns an empty document
\* without an error, and the corrupted file is moved aside so that the
\* corruption is not read again; for every reader of the document.
C14_CorruptedPrimaryQuarantined ==
  CorruptedPrimary /\ ~ValidBackup =>
    \A reader \in Readers : QuarantinesCorruption(reader)

\* Records and documents for the round trip: every status, with and without
\* a process id, an exit code, the operator's flag and a retry count.
RoundTripRecords ==
  { Rec("running", 1, 0, FALSE, 0), Rec("stopped", 0, 1, TRUE, 1),
    Rec("failed", 0, 0, FALSE, RetryLimit) }

RoundTripDocs == [Names -> RoundTripRecords \cup {NoRec}]

\* Writing the document and reading it back, by the Manager and by
\* FileStateManager, gives the document.
RoundTrip(state) ==
  /\ loadRuntimeStateFile(saveRuntimeStateFile(dir, state)) = state
  /\ LET sv == SaveRuntimeState(dir, wr.open, state)
     IN sv.err = "nil" =>
          /\ GetRuntimeState(sv.dir, wr.open).err = "nil"
          /\ GetRuntimeState(sv.dir, wr.open).state = state
          /\ loadRuntimeStateFile(sv.dir) = state

\* C15: round trip: for every runtime state document, writing it and then
\* reading it back with no write in between yields a document with the
\* same set of task names and an equal record for each name.
C15_WriteThenReadRoundTrip == \A state \in RoundTripDocs : RoundTrip(state)

\* A write of a document with an exit code and the operator's flag has
\* succeeded, and the file reads back as that document.
C15_Witness ==
  /\ ~wr.open
  /\ lastWrite.by # "none"
  /\ lastWrite.err = "nil"
  /\ loadRuntimeStateFile(dir)["t1"] = Rec("stopped", 0, 1, TRUE, 1)
  /\ RoundTrip(loadRuntimeStateFile(dir))

----------------------------------------------------------------------------
(* Concurrent daemon starts                                                 *)
(*                                                                         *)
(* DaemonManager.mu is a mutex of one process.  Processes that call        *)
(* EnsureDaemonRunning at the same time (command processes on their way    *)
(* into startTask, restartTask or listTasks, the daemon in retryTask) are  *)
(* ordered by nothing but the state file, so the statements of             *)
(* EnsureDaemonRunning and StartDaemon interleave across processes.        *)

\* The record StartDaemon writes for the process it spawned.
DaemonInfo(pid) == Rec("running", pid, 0, FALSE, 0)

\* EnsureDaemonRunning: IsRunning; a running daemon ends the call.
EnsureCheck(p) ==
  /\ ens[p].pc = "idle"
  /\ ~isDaemonRunningLocked(Now)
  /\ ens' = [ens EXCEPT ![p].pc = "StartDaemon"]
  /\ UNCHANGED <<coreVars, storeVars, callVars, daemons, stopVars>>

\* StartDaemon, step 1: "daemon is already running" ends the call.
StartDaemonCheck(p) ==
  /\ ens[p].pc = "StartDaemon"
  /\ ens' = [ens EXCEPT ![p].pc =
               IF isDaemonRunningLocked(Now) THEN "idle" ELSE "Start"]
  /\ UNCHANGED <<coreVars, storeVars, callVars, daemons, stopVars>>

\* StartDaemon, step 3: cmd.Start() of taskd --daemon, then the 100 ms
\* sleep.
StartDaemonSpawn(p) ==
  /\ ens[p].pc = "Start"
  /\ nextPid <= MaxPid
  /\ alive' = Spawn(Now).alive
  /\ nextPid' = Spawn(Now).nextPid
  /\ daemons' = daemons \cup {nextPid}
  /\ ens' = [ens EXCEPT ![p] = [pc |-> "SaveDaemonState", pid |-> nextPid]]
  /\ UNCHANGED <<doc, cfg, dPid, dInit, dTasks, dReap, dSaves, started,
                 restarts, opStopped, resetFrom,
                 storeVars, callVars, stopVars>>

\* StartDaemon, step 4: SaveDaemonState of the new process.
StartDaemonSave(p) ==
  /\ ens[p].pc = "SaveDaemonState"
  /\ doc' = SaveDaemonState(Now, DaemonInfo(ens[p].pid)).doc
  /\ ens' = [ens EXCEPT ![p] = Idle]
  /\ UNCHANGED <<alive, nextPid, cfg, dPid, dInit, dTasks, dReap, dSaves,
                 started, restarts, opStopped, resetFrom,
                 storeVars, callVars, daemons,
                 stopVars>>

\* A daemon process is killed from outside.
DaemonKilled(pid) ==
  /\ pid \in daemons \cap alive
  /\ alive' = alive \ {pid}
  /\ UNCHANGED <<doc, nextPid, cfg, dPid, dInit, dTasks, dReap, dSaves,
                 started, restarts, opStopped, resetFrom,
                 storeVars, callVars, raceVars>>

EnsureInit ==
  /\ Init
  /\ ~cfg["t2"].AutoStart

EnsureNext ==
  \/ \E p \in Procs : EnsureCheck(p)
  \/ \E p \in Procs : StartDaemonCheck(p)
  \/ \E p \in Procs : StartDaemonSpawn(p)
  \/ \E p \in Procs : StartDaemonSave(p)
  \/ \E pid \in 1..MaxPid : DaemonKilled(pid)

EnsureSpec == EnsureInit /\ [][EnsureNext]_vars

\* The daemon processes that run.
RunningDaemons == daemons \cap alive

\* C16: at any time at most one valid daemon process is running, also when
\* several processes call EnsureDaemonRunning or StartDaemon concurrently.
C16_AtMostOneDaemonProcess == Cardinality(RunningDaemons) <= 1

----------------------------------------------------------------------------
(* A stop command during a tick                                             *)
(*                                                                         *)
(* stopTask in a command process and checkAndRestartTasks in the daemon    *)
(* each read and write the state file several times; nothing but the file  *)
(* orders them.  stopTask is split at its three file accesses, the tick    *)
(* between the load of its RuntimeState and the loop over it.              *)

\* taskd stop <name>: GetManager, the lookup of the task, Task.Stop.
StopKill(name) ==
  /\ stp.pc = "idle"
  /\ LET m == GetManager(Now)
         r == TaskStop(m.tasks[name], m.w)
     IN /\ Commit(r.w)
        /\ stp' = [pc |-> "setTaskStoppedByTaskd", name |-> name,
                   tasks |-> [m.tasks EXCEPT ![name] = r.task],
                   err |-> r.err]
        /\ started' = Live(started, r.w.alive)
  /\ UNCHANGED <<cfg, dPid, dInit, dTasks, dReap, dSaves, restarts, opStopped,
                 resetFrom, mon, storeVars, callVars, ensVars>>

\* stopTask: setTaskStoppedByTaskd(name, true).
StopFlag ==
  /\ stp.pc = "setTaskStoppedByTaskd"
  /\ Commit(setTaskStoppedByTaskd(Now, stp.name, TRUE))
  /\ stp' = [stp EXCEPT !.pc = "saveRuntimeState"]
  /\ UNCHANGED <<cfg, dPid, dInit, dTasks, dReap, dSaves, started, restarts,
                 opStopped, resetFrom, mon, storeVars, callVars, ensVars>>

\* stopTask: saveRuntimeState, and the command process exits.
StopSave ==
  /\ stp.pc = "saveRuntimeState"
  /\ Commit(saveRuntimeState(stp.tasks, Now))
  /\ stp' = NoStop
  /\ opStopped' = [opStopped EXCEPT ![stp.name] =
                     IF stp.err = "nil" \/ @ = "stopped"
                     THEN "stopped" ELSE "tried"]
  /\ UNCHANGED <<cfg, dPid, dInit, dTasks, dReap, dSaves, started, restarts,
                 resetFrom, mon, storeVars, callVars, ensVars>>

\* checkAndRestartTasks, step 1: the daemon loads the RuntimeState.
TickLoad ==
  /\ Monitoring
  /\ mon.pc = "idle"
  /\ mon' = [pc |-> "range", snap |-> loadRuntimeState(Now)]
  /\ UNCHANGED <<coreVars, storeVars, callVars, ensVars, stp>>

\* The records the loaded RuntimeState holds, and those the loop will try
\* to restart.
Loaded == {t \in Tasks : mon.snap[t] # NoRec}

LoadedEligible == {t \in Tasks : shouldRetryTask(cfg, t, mon.snap[t])}

\* checkAndRestartTasks, step 2: the loop over the loaded RuntimeState.
TickRange(order, ok) ==
  /\ dPid \in alive
  /\ mon.pc = "range"
  /\ LET st == checkLoop([tasks |-> dTasks, w |-> Now, attempted |-> {},
                          restarted |-> {}, logged |-> {}],
                         cfg, mon.snap, order, ok)
     IN /\ Commit(st.w)
        /\ dTasks' = st.tasks
        /\ dReap' = [t \in Tasks |->
                       IF t \in st.restarted
                       THEN dReap[t] \cup {st.tasks[t].pid} ELSE dReap[t]]
        /\ dPid' = IF st.w.dspawn # 0 THEN st.w.dspawn ELSE dPid
        /\ restarts' = [t \in Tasks |->
                          IF t \in st.restarted
                          THEN restarts[t] + 1 ELSE restarts[t]]
  /\ mon' = NoTick
  /\ UNCHANGED <<cfg, dInit, dSaves, started, opStopped, resetFrom, stp,
                 storeVars, callVars, ensVars>>

StopRaceInit ==
  /\ Init
  /\ ~cfg["t2"].AutoStart

\* The operator starts and stops the AutoStart task t1; the daemon runs its
\* ticks, reapers and delayed saves.
StopRaceNext ==
  \/ \E ok \in BOOLEAN : CmdStart("t1", ok)
  \/ DaemonInit
  \/ StopKill("t1")
  \/ StopFlag
  \/ StopSave
  \/ TickLoad
  \/ \E order \in Orders(Loaded), ok \in [LoadedEligible -> BOOLEAN] :
        TickRange(order, ok)
  \/ \E t \in Tasks, pid \in 1..MaxPid : Reap(t, pid)
  \/ ExitSave

StopRaceSpec == StopRaceInit /\ [][StopRaceNext]_vars

\* Neither a stopTask nor a tick is in progress, and no reaper or delayed
\* save of the daemon is pending.
Quiet ==
  /\ stp.pc = "idle"
  /\ mon.pc = "idle"
  /\ dSaves = 0
  /\ \A t \in Tasks : dReap[t] \subseteq alive

\* C17: when a stopTask of a command process interleaves in any order with
\* a tick of the daemon, the operator's stop is not lost: once both have
\* finished, the record of the stopped task does not make it eligible for
\* an automatic restart.
C17_StopSurvivesConcurrentTick ==
  Quiet =>
    \A t \in Tasks :
      opStopped[t] = "stopped" => ~shouldRetryTask(cfg, t, doc[t])

----------------------------------------------------------------------------
(* The decision whether a daemon is needed                                  *)

\* The records a command can find for a task: none, a running one (whose
\* process may be gone), and stopped ones with and without the operator's
\* flag and with retry counts up to the limit.
NeedsRecords ==
  { NoRec, Rec("running", 1, 0, FALSE, 0), Rec("stopped", 0, 0, TRUE, 1) }
  \cup { Rec("stopped", 0, 0, FALSE, n) : n \in 0..RetryLimit }

NeedsDocs ==
  { d \in [Names -> NeedsRecords \cup {DaemonInfo(MaxPid)}] :
      /\ d[DAEMON] \in {NoRec, DaemonInfo(MaxPid)}
      /\ \A t \in Tasks : d[t] \in NeedsRecords }

\* A command process finds some document and no process alive.
NeedsInit ==
  /\ doc \in NeedsDocs
  /\ alive = {}
  /\ nextPid = 1
  /\ cfg \in Definitions
  /\ dPid = 0
  /\ dInit = FALSE
  /\ dTasks = NoTasks
  /\ dReap = NoReapers
  /\ dSaves = 0
  /\ started = [t \in Tasks |-> 0]
  /\ restarts = [t \in Tasks |-> 0]
  /\ opStopped = [t \in Tasks |-> "no"]
  /\ resetFrom = [t \in Tasks |-> 0]
  /\ dir = EmptyDir
  /\ wr = Closed
  /\ lastWrite = NoWrite
  /\ ens = [p \in Procs |-> Idle]
  /\ daemons = {}
  /\ stp = NoStop
  /\ mon = NoTick
  /\ val = NoCall
  /\ cmd = [p \in Procs |-> NoCmd]
  /\ loop = NoLoop

\* Manager.ensureDaemonForCommand in a command process.
EnsureDaemonForCommand ==
  /\ dPid = 0
  /\ needsDaemon(Now, cfg)
  /\ CommitCommand(ensureDaemonForCommand(Now, cfg))
  /\ UNCHANGED <<cfg, started, restarts, opStopped, resetFrom,
                 storeVars, callVars,
                 raceVars>>

NeedsNext == EnsureDaemonForCommand

NeedsSpec == NeedsInit /\ [][NeedsNext]_vars

\* Some record other than the daemon's is running.
RunningRecord ==
  \E n \in Names : n # DAEMON /\ doc[n] # NoRec /\ doc[n].Status = "running"

\* Some AutoStart task has a record that is stopped, not stopped by the
\* operator, and under its retry limit.
EligibleAutoStart ==
  \E t \in Tasks :
    /\ cfg[t].AutoStart
    /\ doc[t] # NoRec
    /\ doc[t].Status = "stopped"
    /\ ~doc[t].StoppedByTaskd
    /\ UnderLimit(t, doc[t].RetryNum)

\* Some AutoStart task has no record.
UnrecordedAutoStart == \E t \in Tasks : cfg[t].AutoStart /\ doc[t] = NoRec

\* C18 as stated: the Manager decides that a daemon is required if and only
\* if some non-daemon record is running or some AutoStart task is eligible
\* for a future restart.
C18_DaemonRequiredIffRunningOrEligible ==
  needsDaemon(Now, cfg) <=> (RunningRecord \/ EligibleAutoStart)

\* C18 amended: the Manager decides that a daemon is required if and only
\* if some non-daemon record is running, some AutoStart task is eligible
\* for a future restart, or some AutoStart task has no record; in
\* particular a running daemon record, a stopped task without AutoStart, an
\* AutoStart task at its limit and an AutoStart task whose record is marked
\* stopped by the operator do not by themselves require one.
C18_DaemonRequiredIff ==
  needsDaemon(Now, cfg) <=>
    (RunningRecord \/ EligibleAutoStart \/ UnrecordedAutoStart)

\* ensureDaemonForCommand has spawned a daemon next to an AutoStart task
\* stopped by the operator and an AutoStart task that is eligible.
C18_Witness ==
  /\ dPid \in alive
  /\ doc[DAEMON] = DaemonInfo(dPid)
  /\ ~RunningRecord
  /\ EligibleAutoStart
  /\ \E t \in Tasks : cfg[t].AutoStart /\ doc[t] = Rec("stopped", 0, 0, TRUE, 1)


----------------------------------------------------------------------------
(* Commands whose ensure-daemon step fails                                  *)
(*                                                                          *)
(* startTask, restartTask, listTasks and getTaskDetailInfo print the error  *)
(* of ensureDaemonForCommand as a warning and go on. A command process is   *)
(* run here on a document some earlier processes left, with cmd.Start of    *)
(* the daemon succeeding (dok) or failing.                                  *)

\* The state file and the OS as a handler finds them when cmd.Start of a
\* daemon process succeeds (dok) or fails.
NowWith(dok) == [Now EXCEPT !.dstart = dok]

\* taskd start <name> when the daemon can or cannot be started.
StartCommandWith(dok, name, ok) ==
  LET m == GetManager(NowWith(dok))
  IN startTask(m.tasks, m.w, cfg, name, ok)

\* taskd restart <name> when the daemon can or cannot be started.
RestartCommandWith(dok, name, ok) ==
  LET m == GetManager(NowWith(dok))
  IN restartTask(m.tasks, m.w, cfg, name, ok)

\* taskd list when the daemon can or cannot be started.
ListCommandWith(dok) ==
  LET m == GetManager(NowWith(dok)) IN listTasks(m.tasks, m.w, cfg)

\* taskd info <name> when the daemon can or cannot be started.
InfoCommandWith(dok, name) ==
  LET m == GetManager(NowWith(dok))
  IN getTaskDetailInfo(m.tasks, m.w, cfg, name)

\* taskd start <name> in a command process.
StartAttempt(dok, name, ok) ==
  LET r == StartCommandWith(dok, name, ok)
  IN /\ CommitCommand(r.w)
     /\ Started(name, r)
     /\ UNCHANGED cfg
     /\ UNCHANGED <<storeVars, callVars, raceVars>>

\* taskd restart <name> in a command process.
RestartAttempt(dok, name, ok) ==
  LET r == RestartCommandWith(dok, name, ok)
  IN /\ CommitCommand(r.w)
     /\ Started(name, r)
     /\ UNCHANGED cfg
     /\ UNCHANGED <<storeVars, callVars, raceVars>>

\* taskd list in a command process.
ListAttempt(dok) ==
  /\ CommitCommand(ListCommandWith(dok).w)
  /\ started' = Live(started, ListCommandWith(dok).w.alive)
  /\ UNCHANGED <<cfg, restarts, opStopped, resetFrom>>
  /\ UNCHANGED <<storeVars, callVars, raceVars>>

\* taskd info <name> in a command process.
InfoAttempt(dok, name) ==
  /\ CommitCommand(InfoCommandWith(dok, name).w)
  /\ started' = Live(started, InfoCommandWith(dok, name).w.alive)
  /\ UNCHANGED <<cfg, restarts, opStopped, resetFrom>>
  /\ UNCHANGED <<storeVars, callVars, raceVars>>

AttemptNext ==
  \/ \E dok \in BOOLEAN, t \in Tasks, ok \in BOOLEAN :
       StartAttempt(dok, t, ok)
  \/ \E dok \in BOOLEAN, t \in Tasks, ok \in BOOLEAN :
       RestartAttempt(dok, t, ok)
  \/ \E dok \in BOOLEAN : ListAttempt(dok)
  \/ \E dok \in BOOLEAN, t \in Tasks : InfoAttempt(dok, t)
  \/ \E pid \in alive : ProcessExit(pid)

AttemptSpec == NeedsInit /\ [][AttemptNext]_vars

\* Two records of a task agree: both absent, or equal in every field, the
\* process id being compared as present or absent (the daemon that was
\* spawned first takes the next id).
SameRecord(r1, r2) ==
  IF r1 = NoRec \/ r2 = NoRec THEN r1 = r2
  ELSE /\ r1.Status = r2.Status
       /\ r1.ExitCode = r2.ExitCode
       /\ r1.StoppedByTaskd = r2.StoppedByTaskd
       /\ r1.RetryNum = r2.RetryNum
       /\ (r1.PID = 0) = (r2.PID = 0)

\* Two task infos agree.
SameInfo(i1, i2) == i1.Status = i2.Status /\ (i1.PID = 0) = (i2.PID = 0)

\* Two runs of a command return the same error and leave the same records
\* of the tasks.
SameOutcome(a, b) ==
  /\ a.err = b.err
  /\ \A t \in Tasks : SameRecord(a.w.doc[t], b.w.doc[t])

\* The ensure-daemon step of a command fails when cmd.Start fails.
EnsureFails ==
  /\ needsDaemon(GetManager(Now).w, cfg)
  /\ ~isDaemonRunningLocked(GetManager(Now).w)

\* C19: a failure of the ensure-daemon step never changes the outcome of
\* the command that triggered it: start, restart, list and info of a task
\* return the same result and leave the same task records whether the
\* daemon could be started or not.
C19_DaemonFailureKeepsOutcome ==
  /\ \A t \in Tasks, ok \in BOOLEAN :
       /\ SameOutcome(StartCommandWith(TRUE, t, ok),
                      StartCommandWith(FALSE, t, ok))
       /\ SameOutcome(RestartCommandWith(TRUE, t, ok),
                      RestartCommandWith(FALSE, t, ok))
  /\ \A t \in Tasks :
       /\ SameOutcome(InfoCommandWith(TRUE, t), InfoCommandWith(FALSE, t))
       /\ SameInfo(InfoCommandWith(TRUE, t).info,
                   InfoCommandWith(FALSE, t).info)
       /\ SameInfo(ListCommandWith(TRUE).list[t],
                   ListCommandWith(FALSE).list[t])
       /\ SameRecord(ListCommandWith(TRUE).w.doc[t],
                     ListCommandWith(FALSE).w.doc[t])

\* A start command has started t1 although a daemon was required and none
\* could be started, and the next command finds the same situation.
C19_Witness ==
  /\ started["t1"] # 0
  /\ doc["t1"] # NoRec
  /\ doc["t1"].Status = "running"
  /\ dPid = 0
  /\ doc[DAEMON] = NoRec
  /\ EnsureFails
  /\ StartCommandWith(TRUE, "t2", TRUE).w.dspawn # 0
  /\ StartCommandWith(FALSE, "t2", TRUE).w.dspawn = 0
  /\ StartCommandWith(FALSE, "t2", TRUE).err = "nil"


----------------------------------------------------------------------------
(* Commands on a name that has no task definition *)

\* A name for which the tasks directory holds no definition.
UnknownName == "t3"

\* taskd del <name>: GetManager, GetTaskStatus, StopTask if the task is
\* running, then RemoveTask (names other than the builtin one).
RemoveCommand(name) ==
  LET m == GetManager(Now) IN
  IF name \notin Tasks
  THEN [tasks |-> m.tasks, w |-> m.w, err |-> "not found"]
  ELSE LET s == IF GetInfo(m.tasks[name]).Status = "running"
                THEN stopTask(m.tasks, m.w, name)
                ELSE [tasks |-> m.tasks, w |-> m.w, err |-> "nil"]
       IN IF s.err # "nil"
          THEN [tasks |-> s.tasks, w |-> s.w, err |-> "failed to stop task"]
          ELSE removeTask(s.tasks, s.w, name)

\* A command returned an error, spawned no process and left the state file
\* as it found it.
Rejected(r) ==
  /\ r.err # "nil"
  /\ r.w.alive = alive
  /\ r.w.nextPid = nextPid
  /\ r.w.doc = doc

\* C20: start, stop, restart and remove of a name that has no task
\* definition return an error, spawn no process (neither a task nor a
\* daemon) and leave the runtime state document, the daemon record
\* included, unchanged.
C20_UnknownNameRejectedBeforeMutation ==
  /\ \A ok \in BOOLEAN : Rejected(StartCommand(UnknownName, ok))
  /\ Rejected(StopCommand(UnknownName))
  /\ \A ok \in BOOLEAN : Rejected(RestartCommand(UnknownName, ok))
  /\ Rejected(RemoveCommand(UnknownName))


----------------------------------------------------------------------------
(* The reserved name *)

\* ValidateOperation that lets del of the builtin task pass.
ValidateOperation_AllowsDel(name, operation) ==
  IF name = "taskd"
  THEN CASE operation = "add" -> "cannot add builtin task"
         [] operation = "edit" -> "cannot edit builtin task"
         [] operation \in {"del", "start", "stop", "restart", "info"} -> "nil"
         [] OTHER -> "operation not supported for builtin task"
  ELSE "nil"

\* BuiltinTaskHandler.ValidateOperation: the error it returns.
ValidateOperation(name, operation) ==
  IF name = "taskd"
  THEN CASE operation = "add" -> "cannot add builtin task"
         [] operation = "edit" -> "cannot edit builtin task"
         [] operation = "del" -> "cannot delete builtin task"
         [] operation \in {"start", "stop", "restart", "info"} -> "nil"
         [] OTHER -> "operation not supported for builtin task"
  ELSE "nil"

\* Task names a command line can carry.
NameInputs == {"taskd", "TASKD", "Taskd", "taskd ", "", "t1", "t2"}

\* Operation names a caller can pass.
OperationInputs ==
  {"add", "edit", "del", "start", "stop", "restart", "info", "list",
   "reload", "DEL", ""}

\* Manager.ValidateBuiltinTaskOperation called with a name and an operation.
ValidateBuiltinTaskOperation(name, operation) ==
  /\ val' = [name |-> name, op |-> operation,
             err |-> ValidateOperation(name, operation)]
  /\ UNCHANGED <<coreVars, storeVars, raceVars, cmd, loop>>

ValidateNext ==
  \E name \in NameInputs, operation \in OperationInputs :
    ValidateBuiltinTaskOperation(name, operation)

ValidateSpec == Init /\ [][ValidateNext]_vars

\* C21: for the reserved name taskd the operations add, edit and del are
\* rejected with an error, start, stop, restart and info are allowed and any
\* other operation name is rejected; for every other task name, the empty
\* name and TASKD included, every operation passes the validation.
C21_ReservedNameValidation ==
  val # NoCall =>
    IF val.name = "taskd"
    THEN (val.err = "nil") = (val.op \in {"start", "stop", "restart", "info"})
    ELSE val.err = "nil"

\* del of taskd was rejected.
C21_Witness ==
  val.name = "taskd" /\ val.op = "del" /\ val.err # "nil" /\ val.err # "none"


\* Manager.addTask: the definitions (the .toml files) after the call, the
\* Tasks of the Manager and the error; the state file is not touched.
addTask(tasks, c, w, taskName, config) ==
  IF IsBuiltinTask(taskName)
  THEN [tasks |-> tasks, c |-> c, w |-> w,
        err |-> ValidateOperation(taskName, "add")]
  ELSE IF taskName \in DOMAIN tasks
  THEN [tasks |-> tasks, c |-> c, w |-> w, err |-> "already exists"]
  ELSE [tasks |-> [n \in DOMAIN tasks \cup {taskName} |->
                     IF n = taskName THEN NewTask ELSE tasks[n]],
        c |-> [n \in DOMAIN c \cup {taskName} |->
                 IF n = taskName THEN config ELSE c[n]],
        w |-> w, err |-> "nil"]

\* Manager.ReloadTask: the Task is replaced by a new instance built from
\* its definition; the state file is not touched.
ReloadTask(tasks, c, w, name) ==
  IF name \notin DOMAIN tasks
  THEN [tasks |-> tasks, c |-> c, w |-> w, err |-> "does not exist"]
  ELSE [tasks |-> [tasks EXCEPT ![name] = NewTask], c |-> c, w |-> w,
        err |-> "nil"]

\* The errors BuiltinTaskHandler.ValidateOperation returns.
BuiltinErrors ==
  {"cannot add builtin task", "cannot edit builtin task",
   "cannot delete builtin task", "operation not supported for builtin task"}

\* A call failed with the builtin-task error and changed neither the
\* definitions nor the state file.
RejectedAsBuiltin(r, c, w) ==
  /\ r.err \in BuiltinErrors
  /\ c = cfg
  /\ r.w.doc = w.doc

\* C22: addTask, removeTask and reloadTask, called with the reserved daemon
\* name, fail with the dedicated builtin-task error, not with a generic
\* "does not exist", and change neither the task definitions nor the
\* runtime state document.
C22_ReservedNameRejectedAsBuiltin ==
  LET m == GetManager(Now) IN
  /\ \A config \in {Config(TRUE, 1), Config(FALSE, 0)} :
       LET r == addTask(m.tasks, cfg, m.w, DAEMON, config)
       IN RejectedAsBuiltin(r, r.c, m.w)
  /\ RejectedAsBuiltin(removeTask(m.tasks, m.w, DAEMON), cfg, m.w)
  /\ LET r == ReloadTask(m.tasks, cfg, m.w, DAEMON)
     IN RejectedAsBuiltin(r, r.c, m.w)


----------------------------------------------------------------------------
(* Stopping the daemon *)

\* DaemonManager.updateDaemonStoppedState and
\* updateDaemonStoppedStateWithManager: both write the same record.
updateDaemonStoppedState(w, daemonInfo) ==
  SaveDaemonState(w, [Status |-> "stopped", PID |-> 0, ExitCode |-> 0,
                      StoppedByTaskd |-> TRUE,
                      RetryNum |-> daemonInfo.RetryNum])

\* StopDaemon that persists the stopped record without the operator's flag.
StopDaemon_WithoutFlag(w) ==
  LET daemonInfo == loadRuntimeState(w)[DAEMON] IN
  IF daemonInfo = NoRec
  THEN [w |-> w, err |-> "daemon is not running"]
  ELSE IF daemonInfo.Status # "running"
  THEN [w |-> w, err |-> "daemon is not running (status)"]
  ELSE [w |-> SaveDaemonState(
                IF FindProcess(daemonInfo.PID, w.alive)
                THEN Terminate(w, daemonInfo.PID) ELSE w,
                [Status |-> "stopped", PID |-> 0, ExitCode |-> 0,
                 StoppedByTaskd |-> FALSE,
                 RetryNum |-> daemonInfo.RetryNum]),
        err |-> "nil"]

\* DaemonManager.StopDaemon: Signal(SIGTERM) is not supported on Windows, so
\* the process is killed.
StopDaemon(w) ==
  LET daemonInfo == loadRuntimeState(w)[DAEMON] IN
  IF daemonInfo = NoRec
  THEN [w |-> w, err |-> "daemon is not running"]
  ELSE IF daemonInfo.Status # "running"
  THEN [w |-> w, err |-> "daemon is not running (status)"]
  ELSE IF ~FindProcess(daemonInfo.PID, w.alive)
  THEN [w |-> updateDaemonStoppedState(w, daemonInfo), err |-> "nil"]
  ELSE [w |-> updateDaemonStoppedState(Terminate(w, daemonInfo.PID),
                                       daemonInfo),
        err |-> "nil"]

\* taskd stop taskd: GetManager, Manager.StopTask, stopBuiltinTask.
StopDaemonCommand == StopDaemon(GetManager(Now).w)

\* taskd stop taskd in a command process.
CmdStopDaemon ==
  LET r == StopDaemonCommand
  IN /\ Commit(r.w)
     /\ started' = Live(started, r.w.alive)
     /\ IF dPid \in r.w.alive \/ dPid = 0
        THEN UNCHANGED <<dPid, dInit, dTasks, dReap, dSaves>>
        ELSE /\ dPid' = 0
             /\ dInit' = FALSE
             /\ dTasks' = NoTasks
             /\ dReap' = NoReapers
             /\ dSaves' = 0
     /\ UNCHANGED <<cfg, restarts, opStopped, resetFrom>>
     /\ UNCHANGED <<storeVars, callVars, raceVars>>

DaemonStopNext ==
  \/ Next
  \/ CmdStopDaemon

DaemonStopSpec == Init /\ [][DaemonStopNext]_vars

----------------------------------------------------------------------------
(* A start whose process cannot be spawned *)

\* The runtime record of a task records a failed start.
RecordsFailure(r) == r # NoRec /\ r.Status \in {"failed", "stopped"}

\* C24: when startTask fails because the OS process cannot be spawned, the
\* error is returned to the caller and the persisted runtime record of that
\* task records the failure (status failed or stopped), rather than being
\* absent or left as it was.
C24_SpawnFailureRecorded ==
  \A t \in Tasks :
    LET r == StartCommand(t, FALSE) IN
    r.err = "failed to start process" =>
      RecordsFailure(r.w.doc[t])


----------------------------------------------------------------------------
(* One process per task *)

\* Process ids that are known to belong to task t and exist: the one its
\* record names, the one its last manual start spawned, the one the Task of
\* the daemon holds and those the reapers of the daemon wait for. Ids are
\* never reused, so each of them was spawned for t.
ProcessesOf(t) ==
  ({doc[t].PID, started[t]}
     \cup (IF dPid \in alive THEN {dTasks[t].pid} \cup dReap[t] ELSE {}))
  \cap alive

\* The processes of task t that exist after a handler with result r ran:
\* those known before that are still there, and the one r spawned for t.
ProcessesAfter(t, r, spawned) ==
  (ProcessesOf(t) \cap r.w.alive)
    \cup (IF spawned THEN {r.tasks[t].pid} ELSE {})

\* C25: at most one OS process spawned by the supervisor is alive for a
\* given task at any time, across all command processes and the daemon: in
\* every state, and after every start or restart of the task by a command
\* process and every tick of the daemon that can run in it.
C25_OneProcessPerTask ==
  \A t \in Tasks :
    /\ Cardinality(ProcessesOf(t)) <= 1
    /\ LET r == StartCommand(t, TRUE)
       IN Fits(r.w) =>
            Cardinality(ProcessesAfter(t, r, r.err = "nil")) <= 1
    /\ LET r == RestartCommand(t, TRUE)
       IN Fits(r.w) =>
            Cardinality(ProcessesAfter(t, r, r.err = "nil")) <= 1
    /\ Monitoring =>
         \A r \in TickRuns :
           Fits(r.w) =>
             Cardinality(ProcessesAfter(t, r, t \in r.restarted)) <= 1

----------------------------------------------------------------------------
(* Frame of an operation on one task *)

\* The handler result r on the state file w left the records of every name
\* other than a as they were.
FrameOf(a, r) == \A n \in Names \ {a} : r.w.doc[n] = doc[n]

\* C26: a startTask, stopTask or restartTask on task A, executed by a
\* command process or by the daemon, leaves the persisted record of every
\* other name unchanged in every field and does not remove it: other tasks
\* that are running, other tasks that are stopped, and the daemon record.
C26_OtherRecordsUnchanged ==
  \A a \in Tasks :
    /\ \A ok \in BOOLEAN :
         /\ Fits(StartCommand(a, ok).w) => FrameOf(a, StartCommand(a, ok))
         /\ Fits(RestartCommand(a, ok).w) =>
              FrameOf(a, RestartCommand(a, ok))
         /\ Monitoring /\ a \in Eligible
              /\ Fits(retryTask(dTasks, Now, cfg, a, ok).w) =>
              FrameOf(a, retryTask(dTasks, Now, cfg, a, ok))
    /\ FrameOf(a, StopCommand(a))


----------------------------------------------------------------------------
(* Records of processes that are gone *)

\* The tasks whose record is running while its process no longer exists.
Gone == {t \in Recorded : doc[t].Status = "running" /\ doc[t].PID \notin alive}

\* The record of t marked stopped, with the retry count it has now.
StoppedRecord(t) ==
  [Status |-> "stopped", PID |-> 0, ExitCode |-> 0, StoppedByTaskd |-> FALSE,
   RetryNum |-> doc[t].RetryNum]

\* C27: when a monitor tick finds a record with status running whose
\* process no longer exists, the record of that task after the tick is
\* stopped, pid 0, not stopped by the operator, with the same retry count:
\* the record is healed within one tick.
C27_GoneProcessHealedInOneTick ==
  Monitoring =>
    \A st \in TickRuns :
      Fits(st.w) => \A t \in Gone : st.w.doc[t] = StoppedRecord(t)


----------------------------------------------------------------------------
(* A restart attempt that fails *)

\* The record handleRetryFailure writes for t: stopped, exit code -1, the
\* retry count t has now.
FailureRecord(t) ==
  [Status |-> "stopped", PID |-> 0, ExitCode |-> -1, StoppedByTaskd |-> FALSE,
   RetryNum |-> doc[t].RetryNum]

\* C28: if the monitor's restart attempt for a task fails, the persisted
\* record of that task afterwards has pid 0, a status other than running,
\* exit code -1 and the retry count it had before. The record is looked at
\* right after the attempt: the task is the last one the tick ranges over.
C28_FailedRestartRecorded ==
  Monitoring =>
    \A order \in Orders(Recorded), ok \in [Eligible -> BOOLEAN] :
      LET st == MonitorTick(order, ok) IN
      Fits(st.w) /\ order # << >> =>
        LET t == order[Len(order)] IN
        t \in st.attempted \ st.restarted => st.w.doc[t] = FailureRecord(t)


----------------------------------------------------------------------------
(* Isolation of a failed restart *)

\* C29: within one tick, a failed restart of one task prevents neither the
\* liveness check nor the eligible restart of any other record of that tick,
\* and the polling loop goes on: every record whose process is gone gets its
\* stopped record written, every eligible task is attempted and is restarted
\* exactly if its own spawn succeeds and its Task is not running, and the
\* daemon process is still there.
C29_FailedRestartIsolated ==
  Monitoring =>
    \A order \in Orders(Recorded), ok \in [Eligible -> BOOLEAN] :
      LET st == MonitorTick(order, ok) IN
      Fits(st.w) =>
        /\ \A b \in Gone : \E d \in st.w.writes : d[b] = StoppedRecord(b)
        /\ \A b \in Eligible :
             /\ b \in st.attempted
             /\ b \in st.restarted
                  <=> (ok[b] /\ dTasks[b].status # "running")
        /\ dPid \in st.w.alive

\* A tick can run in which the restart of the first task fails and the
\* task ranged over after it is restarted.
C29_Witness ==
  /\ Monitoring
  /\ \E order \in Orders(Recorded), ok \in [Eligible -> BOOLEAN] :
       LET st == MonitorTick(order, ok) IN
       /\ Fits(st.w)
       /\ Len(order) = 2
       /\ order[1] \in st.attempted \ st.restarted
       /\ order[2] \in st.restarted


----------------------------------------------------------------------------
(* The retry count between manual starts *)

\* The handler result r did not lower the persisted retry count of t; a
\* task without a record has the count 0.
KeepsRetryNum(t, r) == Fits(r.w) => r.w.doc[t].RetryNum >= doc[t].RetryNum

\* C30: between two manual start or restart operations of a task its
\* persisted retry count never decreases: no command on this task other
\* than start and restart, no command on another task, no start-up clean-up,
\* no monitor tick with its automatic restarts and no reaper callback lowers
\* it.
C30_RetryNumNeverDecreases ==
  \A t \in Tasks :
    /\ KeepsRetryNum(t, StopCommand(t))
    /\ KeepsRetryNum(t, [w |-> ListCommand.w])
    /\ \A n \in Tasks \ {t} :
         /\ KeepsRetryNum(t, StopCommand(n))
         /\ \A ok \in BOOLEAN :
              /\ KeepsRetryNum(t, StartCommand(n, ok))
              /\ KeepsRetryNum(t, RestartCommand(n, ok))
    /\ dPid \in alive /\ ~dInit => KeepsRetryNum(t, NewTaskMonitor)
    /\ Monitoring => \A st \in TickRuns : KeepsRetryNum(t, st)
    /\ dPid \in alive /\ dSaves > 0 => KeepsRetryNum(t, [w |-> onTaskExit])

----------------------------------------------------------------------------
(* Two command processes                                                    *)
(*                                                                         *)
(* Each command process has its own Manager; nothing but the state file    *)
(* orders two of them.  startTask and restartTask are split at their file  *)
(* accesses and at Task.Stop and Task.Start; the reaper goroutines of the  *)
(* process run between these steps.  The daemon process a command spawns   *)
(* is left at its start-up here, and the process is gone before the        *)
(* delayed save of Manager.onTaskExit is due.                              *)

\* The command process p is between GetManager and its exit.
InCommand(p) == cmd[p].pc \notin {"idle", "done"}

\* The command process p exits with the error err.
Exits(p, err) == [cmd[p] EXCEPT !.pc = "done", !.err = err]

\* taskd start|restart <name> in process p: GetManager, whose loadTasks
\* starts a reaper (Task.monitorExistingProcess) for every restored process.
CmdBegin(p, op, name) ==
  /\ ~InCommand(p)
  /\ LET m == GetManager(Now)
     IN /\ Commit(m.w)
        /\ cmd' = [cmd EXCEPT ![p] =
                     [pc |-> IF op = "restart" THEN "Stop" ELSE "Start",
                      op |-> op, name |-> name, tasks |-> m.tasks,
                      reap |-> restoredReapers(m.tasks), new |-> 0,
                      err |-> "nil"]]
  /\ UNCHANGED <<cfg, dPid, dInit, dTasks, dReap, dSaves, started, restarts,
                 opStopped, resetFrom>>
  /\ UNCHANGED <<storeVars, raceVars, val, loop>>

\* restartTask up to its sleep: ensureDaemonForCommand, and Task.Stop if
\* the Task is running.
CmdTaskStop(p) ==
  /\ cmd[p].pc = "Stop"
  /\ LET name == cmd[p].name
         w1 == ensureDaemonForCommand(Now, cfg)
         s == IF cmd[p].tasks[name].status = "running"
              THEN TaskStop(cmd[p].tasks[name], w1)
              ELSE [task |-> cmd[p].tasks[name], w |-> w1, err |-> "nil"]
     IN /\ CommitCommand(s.w)
        /\ cmd' = [cmd EXCEPT ![p] =
                     IF s.err # "nil" THEN Exits(p, s.err)
                     ELSE [@ EXCEPT !.pc = "Start", !.op = "restarting",
                                    !.tasks[name] = s.task]]
  /\ UNCHANGED <<cfg, started, restarts, opStopped, resetFrom>>
  /\ UNCHANGED <<storeVars, raceVars, val, loop>>

\* Task.Start, in startTask after ensureDaemonForCommand and in restartTask
\* after the sleep; a successful start leaves a reaper (Task.waitForExit).
CmdTaskStart(p, ok) ==
  /\ cmd[p].pc = "Start"
  /\ LET name == cmd[p].name
         w1 == IF cmd[p].op = "start" THEN ensureDaemonForCommand(Now, cfg)
               ELSE Now
         r == TaskStart(cmd[p].tasks[name], w1, ok)
     IN /\ CommitCommand(r.w)
        /\ cmd' = [cmd EXCEPT ![p] =
                     IF r.err # "nil"
                     THEN [Exits(p, r.err) EXCEPT !.tasks[name] = r.task]
                     ELSE [@ EXCEPT !.pc = "resetTaskRetryCount",
                                    !.tasks[name] = r.task,
                                    !.reap[name] = @ \cup {r.task.pid},
                                    !.new = r.task.pid]]
  /\ UNCHANGED <<cfg, started, restarts, opStopped, resetFrom>>
  /\ UNCHANGED <<storeVars, raceVars, val, loop>>

\* resetTaskRetryCount(name) after the successful Task.Start.
CmdReset(p) ==
  /\ cmd[p].pc = "resetTaskRetryCount"
  /\ Commit(resetTaskRetryCount(Now, cmd[p].name))
  /\ cmd' = [cmd EXCEPT ![p].pc = "saveRuntimeState"]
  /\ UNCHANGED <<cfg, dPid, dInit, dTasks, dReap, dSaves, started, restarts,
                 opStopped, resetFrom>>
  /\ UNCHANGED <<storeVars, raceVars, val, loop>>

\* saveRuntimeState, after which the operation returns nil and the command
\* process exits.
CmdSave(p) ==
  /\ cmd[p].pc = "saveRuntimeState"
  /\ Commit(saveRuntimeState(cmd[p].tasks, Now))
  /\ cmd' = [cmd EXCEPT ![p] = Exits(p, "nil")]
  /\ UNCHANGED <<cfg, dPid, dInit, dTasks, dReap, dSaves, started, restarts,
                 opStopped, resetFrom>>
  /\ UNCHANGED <<storeVars, raceVars, val, loop>>

\* A reaper goroutine of the command process p (Task.waitForExit or
\* Task.monitorExistingProcess) sees its process exit: whatever the Task
\* holds by then, it becomes stopped and loses its process handle.
CmdReap(p, t, pid) ==
  /\ InCommand(p)
  /\ pid \in cmd[p].reap[t]
  /\ pid \notin alive
  /\ cmd' = [cmd EXCEPT ![p].tasks[t] = [status |-> "stopped", pid |-> 0],
                        ![p].reap[t] = @ \ {pid}]
  /\ UNCHANGED <<coreVars, storeVars, raceVars, val, loop>>

\* Two operators' commands, each on its own task, and the processes of the
\* tasks exiting on their own.
CommandNext ==
  \/ \E op \in {"start", "restart"} : CmdBegin("p1", op, "t1")
  \/ \E op \in {"start", "restart"} : CmdBegin("p2", op, "t2")
  \/ \E p \in Procs : CmdTaskStop(p)
  \/ \E p \in Procs, ok \in BOOLEAN : CmdTaskStart(p, ok)
  \/ \E p \in Procs : CmdReset(p)
  \/ \E p \in Procs : CmdSave(p)
  \/ \E p \in Procs, t \in Tasks, pid \in 1..MaxPid : CmdReap(p, t, pid)
  \/ \E pid \in 1..MaxPid : ProcessExit(pid)

CommandSpec == Init /\ [][CommandNext]_vars

\* The command process p has finished with success and the process it
\* spawned exists.
Succeeded(p) ==
  /\ cmd[p].pc = "done"
  /\ cmd[p].err = "nil"
  /\ cmd[p].new \in alive

\* The state file holds what the command of p wrote for its task: a running
\* record with the pid of the process p spawned.
EffectPersisted(p) ==
  /\ doc[cmd[p].name] # NoRec
  /\ doc[cmd[p].name].Status = "running"
  /\ doc[cmd[p].name].PID = cmd[p].new

\* C31: if two command processes operate concurrently on two different
\* tasks (each starts or restarts one) and both report success, the state
\* file afterwards holds the effect of both: neither write removes or
\* reverts the record the other process wrote.
C31_ConcurrentCommandsKeepBothEffects ==
  (Succeeded("p1") /\ Succeeded("p2"))
    => (EffectPersisted("p1") /\ EffectPersisted("p2"))

\* C32: within one process, once restartTask has stopped the Task and
\* started it again, the Task stays running with the handle of the new
\* process for as long as that process exists, whether or not the reaper of
\* the earlier process has run since.
C32_OldReaperLeavesRestartedTask ==
  \A p \in Procs :
    (/\ cmd[p].op = "restarting"
     /\ cmd[p].pc \in {"resetTaskRetryCount", "saveRuntimeState"}
     /\ cmd[p].new \in alive)
      => cmd[p].tasks[cmd[p].name] = [status |-> "running", pid |-> cmd[p].new]

----------------------------------------------------------------------------
(* The read-only commands *)

\* taskd info <name>: GetManager, then GetTaskDetailInfo.
InfoCommand(name) ==
  LET m == GetManager(Now) IN getTaskDetailInfo(m.tasks, m.w, cfg, name)

\* The task records of the document d are those of the state file, field
\* by field.
TaskRecordsKept(d) == \A t \in Tasks : d[t] = doc[t]

\* C33: the commands list and info, with the start-up of the Manager they
\* trigger, leave every task record of the state file unchanged in every
\* field; only the daemon record may be added or updated.
C33_ReadOnlyCommandsKeepTaskRecords ==
  /\ Fits(ListCommand.w) => TaskRecordsKept(ListCommand.w.doc)
  /\ \A name \in Names :
       Fits(InfoCommand(name).w) => TaskRecordsKept(InfoCommand(name).w.doc)

----------------------------------------------------------------------------
(* A manual start after an operator's stop *)

\* The record of name carries the operator's stop.
OperatorStopped(name) == doc[name] # NoRec /\ doc[name].StoppedByTaskd

\* The record of name in d is running and does not carry an operator's stop.
RunningUnflagged(d, name) ==
  /\ d[name] # NoRec
  /\ d[name].Status = "running"
  /\ ~d[name].StoppedByTaskd

\* C34: a successful manual start or restart of a task that an operator had
\* stopped leaves its record running with StoppedByTaskd false, so that the
\* monitor would restart the task after a later crash.
C34_ManualStartClearsOperatorStop ==
  \A dok \in BOOLEAN, name \in Tasks, ok \in BOOLEAN :
    OperatorStopped(name) =>
      \A r \in {StartCommandWith(dok, name, ok),
                RestartCommandWith(dok, name, ok)} :
        r.err = "nil" /\ Fits(r.w) =>
          /\ RunningUnflagged(r.w.doc, name)
          /\ cfg[name].AutoStart =>
               shouldRetryTask(cfg, name,
                 updateTaskExitedStatus(r.w, name, r.w.doc[name], 0).doc[name])

\* The record of t1 carries an operator's stop while the daemon runs, and
\* a start as well as a restart of t1 succeeds and leaves its record
\* running without the operator's stop.
C34_Witness ==
  /\ OperatorStopped("t1")
  /\ dPid \in alive
  /\ StartCommandWith(TRUE, "t1", TRUE).err = "nil"
  /\ RunningUnflagged(StartCommandWith(TRUE, "t1", TRUE).w.doc, "t1")
  /\ RestartCommandWith(TRUE, "t1", TRUE).err = "nil"
  /\ RunningUnflagged(RestartCommandWith(TRUE, "t1", TRUE).w.doc, "t1")

----------------------------------------------------------------------------
(* The retry limit *)

\* Every way the tick after the tick st can run, if nothing else happens in
\* between.
TickRunsAfter(st) ==
  { checkAndRestartTasks(st.tasks, st.w, cfg, order, ok) :
      order \in Orders({t \in Tasks : st.w.doc[t] # NoRec}),
      ok \in [Tasks -> BOOLEAN] }

\* C35: for a task that has reached its retry limit the monitor emits the
\* "retry limit reached" notice once and not again on later ticks, and it
\* does nothing else to the task.
C35_RetryLimitNoticeOnce ==
  Monitoring =>
    \A st \in TickRuns :
      Fits(st.w) =>
        \A t \in st.logged :
          /\ t \notin st.attempted
          /\ st.w.doc[t] = doc[t]
          /\ st.tasks[t] = dTasks[t]
          /\ \A st2 \in TickRunsAfter(st) : t \notin st2.logged

----------------------------------------------------------------------------
(* The polling loop                                                         *)
(*                                                                         *)
(* runDaemonMode builds the TaskMonitor, installs the signal handler and   *)
(* calls TaskMonitor.Start, whose loop selects between the ticker and      *)
(* stopChan.  A select with both channels ready takes either.  The signal  *)
(* handler runs once: it calls TaskMonitor.Stop and then exits the         *)
(* process.                                                                *)

\* TaskMonitor.Stop: stopChan is closed if the monitor is running.
TaskMonitorStop(l) ==
  IF ~l.isRunning THEN l ELSE [l EXCEPT !.closed = TRUE]

\* TaskMonitor.IsRunning
IsRunning(l) == l.isRunning

\* TaskMonitor.Start up to its loop: isRunning is set and the ticker made.
MonitorStart ==
  /\ Monitoring
  /\ loop.pc = "new"
  /\ ~loop.isRunning
  /\ loop' = [loop EXCEPT !.isRunning = TRUE, !.pc = "select"]
  /\ UNCHANGED <<coreVars, storeVars, raceVars, val, cmd>>

\* The ticker of the loop delivers a tick; its channel holds one at most.
TickerFires ==
  /\ dPid \in alive
  /\ loop.pc \in {"select", "tick"}
  /\ ~loop.tick
  /\ loop' = [loop EXCEPT !.tick = TRUE]
  /\ UNCHANGED <<coreVars, storeVars, raceVars, val, cmd>>

\* The select of the loop takes the tick.
SelectTick ==
  /\ dPid \in alive
  /\ loop.pc = "select"
  /\ loop.tick
  /\ loop' = [loop EXCEPT !.pc = "tick", !.tick = FALSE,
                          !.late = @ \/ loop.closed]
  /\ UNCHANGED <<coreVars, storeVars, raceVars, val, cmd>>

\* checkAndRestartTasks as called by the loop, which then selects again.
LoopTick(order, ok) ==
  /\ loop.pc = "tick"
  /\ TickBody(order, ok)
  /\ loop' = [loop EXCEPT !.pc = "select"]
  /\ UNCHANGED <<val, cmd>>

\* The select of the loop takes stopChan: isRunning is cleared and Start
\* returns.
SelectStop ==
  /\ dPid \in alive
  /\ loop.pc = "select"
  /\ loop.closed
  /\ loop' = [loop EXCEPT !.isRunning = FALSE, !.pc = "returned"]
  /\ UNCHANGED <<coreVars, storeVars, raceVars, val, cmd>>

\* A termination signal reaches the daemon: the handler calls
\* TaskMonitor.Stop.
Signal ==
  /\ dPid \in alive
  /\ dInit
  /\ ~loop.sig
  /\ loop' = [TaskMonitorStop(loop) EXCEPT !.sig = TRUE]
  /\ UNCHANGED <<coreVars, storeVars, raceVars, val, cmd>>

\* The daemon process ends: os.Exit in the signal handler, or the return of
\* runDaemonMode after Start has returned.
DaemonQuits ==
  /\ dPid \in alive
  /\ loop.sig \/ loop.pc = "returned"
  /\ alive' = alive \ {dPid}
  /\ dPid' = 0
  /\ dInit' = FALSE
  /\ dTasks' = NoTasks
  /\ dReap' = NoReapers
  /\ dSaves' = 0
  /\ loop' = NoLoop
  /\ UNCHANGED <<doc, nextPid, cfg, started, restarts, opStopped, resetFrom>>
  /\ UNCHANGED <<storeVars, raceVars, val, cmd>>

\* The operator starts the AutoStart task t1, its processes exit, and the
\* daemon runs its loop, its reapers and its delayed saves until it is
\* signalled.
MonitorNext ==
  \/ \E ok \in BOOLEAN : CmdStart("t1", ok)
  \/ \E pid \in 1..MaxPid : ProcessExit(pid)
  \/ DaemonInit
  \/ MonitorStart
  \/ TickerFires
  \/ SelectTick
  \/ \E order \in Orders(Recorded), ok \in [Eligible -> BOOLEAN] :
        LoopTick(order, ok)
  \/ SelectStop
  \/ Signal
  \/ DaemonQuits
  \/ \E t \in Tasks, pid \in 1..MaxPid : Reap(t, pid)
  \/ ExitSave

MonitorSpec == StopRaceInit /\ [][MonitorNext]_vars

\* C36: after Stop is called on a running TaskMonitor the loop starts no
\* tick after the one in progress, and once Start has returned IsRunning
\* is false; Stop on a monitor that is not running has no effect.
C36_StopEndsPolling ==
  /\ ~loop.late
  /\ loop.pc = "returned" => ~IsRunning(loop)
  /\ ~IsRunning(loop) => TaskMonitorStop(loop) = loop

----------------------------------------------------------------------------
(* Batch update of the state file *)

\* BatchUpdate that writes the given records only.
BatchUpdate_DropsOtherRecords(d, h, updates) ==
  LET ld == loadRuntimeStateUnsafe(d, h)
      state == [n \in Names |->
                  IF n \in DOMAIN updates THEN updates[n] ELSE NoRec]
  IN IF ld.err # "nil"
     THEN [err |-> "failed to load runtime state", dir |-> ld.dir]
     ELSE saveRuntimeStateUnsafe(ld.dir, h, state)

\* FileStateManager.BatchUpdate: one load, the records of updates put into
\* the loaded Tasks, one save.
BatchUpdate(d, h, updates) ==
  LET ld == loadRuntimeStateUnsafe(d, h)
      state == [n \in Names |->
                  IF n \in DOMAIN updates THEN updates[n] ELSE ld.state[n]]
  IN IF ld.err # "nil"
     THEN [err |-> "failed to load runtime state", dir |-> ld.dir]
     ELSE saveRuntimeStateUnsafe(ld.dir, h, state)

\* The update sets BatchUpdate is called with: none, one and two records,
\* new names and names the file has a record of.
BatchUpdates ==
  { [n \in {} |-> NoRec],
    [n \in {"t2"} |-> Rec("running", 3, 0, FALSE, 0)],
    [n \in {"t1", "t2"} |->
       IF n = "t1" THEN Rec("stopped", 0, -1, FALSE, 2)
       ELSE Rec("running", 3, 0, FALSE, 0)] }

\* FileStateManager.BatchUpdate in some process.
StoreBatch(updates) ==
  LET r == BatchUpdate(dir, wr.open, updates)
  IN /\ dir' = r.dir
     /\ lastWrite' = [by |-> "BatchUpdate", err |-> r.err,
                      prev |-> dir[statePath]]
     /\ UNCHANGED wr
     /\ UNCHANGED <<coreVars, raceVars, callVars>>

BatchNext ==
  \/ StoreNext
  \/ \E updates \in BatchUpdates : StoreBatch(updates)

BatchSpec == StoreInit /\ [][BatchNext]_vars

\* C37: BatchUpdate applies all given records in one read-modify-write
\* cycle: after a call that returned nil, the state read back maps every
\* name of the update set to its given record and every other name to the
\* record it had before the call.
C37_BatchUpdateAppliesAll ==
  \A updates \in BatchUpdates :
    LET before == GetRuntimeState(dir, wr.open).state
        r == BatchUpdate(dir, wr.open, updates)
        after == GetRuntimeState(r.dir, wr.open).state
    IN r.err = "nil" =>
         \A n \in Names :
           after[n] = IF n \in DOMAIN updates THEN updates[n] ELSE before[n]

\* A BatchUpdate of t2 alone has returned nil on a file that held a record
\* of t1: the file now holds both.
C37_Witness ==
  /\ lastWrite.by = "BatchUpdate"
  /\ lastWrite.err = "nil"
  /\ ~wr.open
  /\ Unmarshal(lastWrite.prev.data).err = "nil"
  /\ Unmarshal(lastWrite.prev.data).state["t1"] = Rec("running", 1, 0, FALSE, 0)
  /\ Unmarshal(lastWrite.prev.data).state["t2"] = NoRec
  /\ GetRuntimeState(dir, wr.open).state["t1"] = Rec("running", 1, 0, FALSE, 0)
  /\ GetRuntimeState(dir, wr.open).state["t2"] = Rec("running", 3, 0, FALSE, 0)

----------------------------------------------------------------------------
(* Deleting a task *)

\* C38: after a successful delete of a task the state file has no record
\* under its name and no process of the task is left running, so that
\* there is nothing for a later tick to restart.
C38_DeleteRemovesTask ==
  \A name \in Tasks :
    LET r == RemoveCommand(name)
    IN r.err = "nil" /\ Fits(r.w) =>
         /\ r.w.doc[name] = NoRec
         /\ ProcessesOf(name) \cap r.w.alive = {}

----------------------------------------------------------------------------
(* Starting a running Task *)

\* The Tasks a process can hold: those of the daemon's Manager and those a
\* command's Manager restores from the state file.
HeldTasks == {dTasks[n] : n \in Tasks} \cup {GetManager(Now).tasks[n] : n \in Tasks}

\* C39: Task.Start on a Task whose status is running fails with the
\* already-running error, spawns no process (no pid is handed out, the set
\* of live processes is the same) and leaves the Task's status and process
\* handle as they were, whether or not the OS could spawn the executable.
C39_StartOfRunningTaskFails ==
  \A task \in HeldTasks, ok \in BOOLEAN :
    task.status = "running" =>
      LET r == TaskStart(task, Now, ok)
      IN /\ r.err = "already running"
         /\ r.w = Now
         /\ r.task = task

\* A command's Manager holds t1 as running with a live process, and
\* 'start t1' passes the error of Task.Start on.
C39_Witness ==
  /\ GetManager(Now).tasks["t1"].status = "running"
  /\ GetManager(Now).tasks["t1"].pid \in alive
  /\ TaskStart(GetManager(Now).tasks["t1"], Now, TRUE).err = "already running"
  /\ StartCommand("t1", TRUE).err = "already running"

----------------------------------------------------------------------------
(* The daemon after an operator's stop *)

\* The daemon's record says that an operator stopped it.
DaemonStoppedByOperator ==
  /\ doc[DAEMON] # NoRec
  /\ doc[DAEMON].Status = "stopped"
  /\ doc[DAEMON].StoppedByTaskd

\* C40: while the daemon's record carries the stopped-by-operator flag,
\* the start, restart, list and info commands of ordinary tasks spawn no
\* daemon process.
C40_StoppedDaemonNotRespawned ==
  DaemonStoppedByOperator =>
    /\ ListCommandWith(TRUE).w.dspawn = 0
    /\ \A name \in Tasks :
         /\ InfoCommandWith(TRUE, name).w.dspawn = 0
         /\ \A ok \in BOOLEAN :
              /\ StartCommandWith(TRUE, name, ok).w.dspawn = 0
              /\ RestartCommandWith(TRUE, name, ok).w.dspawn = 0

\* The commands of ordinary tasks that run the ensure-daemon step, as the
\* worlds they leave when a daemon process can be spawned.
EnsuringCommands ==
  {ListCommandWith(TRUE).w}
    \cup {InfoCommandWith(TRUE, name).w : name \in Tasks}
    \cup {StartCommandWith(TRUE, name, ok).w : name \in Tasks, ok \in BOOLEAN}
    \cup {RestartCommandWith(TRUE, name, ok).w :
            name \in Tasks, ok \in BOOLEAN}

\* C40 (amended): the stopped-by-operator flag of the daemon's record is
\* not read by the ensure-daemon step: while the record carries it, each of
\* the start, restart, list and info commands of ordinary tasks spawns a
\* daemon whenever a daemon is needed (a task is recorded running or an
\* auto-start task is eligible for restart), and the new daemon's record
\* is running with the flag cleared.
C40_StoppedDaemonRespawnedWhenNeeded ==
  (DaemonStoppedByOperator /\ needsDaemon(GetManager(Now).w, cfg)) =>
    \A w \in EnsuringCommands :
      /\ w.dspawn # 0
      /\ w.dspawn \in w.alive
      /\ w.doc[DAEMON].Status = "running"
      /\ w.doc[DAEMON].PID = w.dspawn
      /\ ~w.doc[DAEMON].StoppedByTaskd

\* An operator stopped the daemon while t1 runs, and the next list spawns a
\* daemon.
C40_Witness ==
  /\ DaemonStoppedByOperator
  /\ doc["t1"] # NoRec
  /\ doc["t1"].Status = "running"
  /\ doc["t1"].PID \in alive
  /\ needsDaemon(GetManager(Now).w, cfg)
  /\ ListCommandWith(TRUE).w.dspawn # 0
  /\ ListCommandWith(TRUE).w.dspawn \notin alive

====
